---- MODULE Spec2Model ----
(***************************************************************************)
(* A model of src/Tools/hypergraph.py: the raw hyperedge-group store of    *)
(* BaseHypergraph / Hypergraph, its structure-wide and per-group caches of *)
(* derived matrices, and the operations that mutate, copy, persist and     *)
(* read them.                                                              *)
(*                                                                         *)
(* Python values are represented as follows.                               *)
(*   - a float weight is an exact rational <<n, d>> in lowest terms;       *)
(*   - a tuple / list of vertex indices is a sequence of naturals;         *)
(*   - a dict is a sequence of [key, value] records in insertion order     *)
(*     (raw groups) or a function whose DOMAIN is the set of present keys  *)
(*     (caches);                                                           *)
(*   - a sparse matrix is [r, c, a]: r rows, c columns, a[i][j] the        *)
(*     coalesced value at row i-1 / column j-1;                            *)
(*   - a diagonal matrix is the sequence of its diagonal values;           *)
(*   - an object reference (self._raw_groups) is an index into stores.     *)
(***************************************************************************)
EXTENDS Integers, Sequences, FiniteSets, TLC

VARIABLES
    hgs,      \* the Hypergraph objects constructed so far, in construction order
    stores,   \* the heap of raw-group dicts; hgs[h].raw indexes it
    sd,       \* the state dict a caller holds: << >> or <<[num_v, raw]>>
    file,     \* the pickled file: << >> or <<the stream written by save>>
    last,     \* the call made by the latest step and how it ended
    out,      \* the rows of the tensor the latest call returned, << >> if none
    steps,    \* number of calls made so far
    threads   \* the threads running calls on hypergraph 1, << >> if none

vars == <<hgs, stores, sd, file, last, out, steps, threads>>

-----------------------------------------------------------------------------
(* Bounds of the model.                                                    *)

MaxSteps == 2      \* calls per behaviour
MaxHG == 2         \* Hypergraph objects per behaviour

NumVs == {2, 3}                    \* num_v values passed at construction
GroupNames == {"main", "aux"}      \* group_name arguments
MergeOps == {"mean", "sum", "max", "min"}   \* merge_op arguments ("min" is unsupported)
Devices == {"cpu", "cuda"}

-----------------------------------------------------------------------------
(* Exact arithmetic on weights.                                            *)

RECURSIVE GCD(_, _)
GCD(a, b) == IF b = 0 THEN a ELSE GCD(b, a % b)

Q(n, d) == LET g == GCD(n, d) IN IF g = 0 THEN <<0, 1>> ELSE <<n \div g, d \div g>>
QInt(n) == <<n, 1>>
QAdd(x, y) == Q(x[1] * y[2] + y[1] * x[2], x[2] * y[2])
QDiv2(x) == Q(x[1], 2 * x[2])
QLess(x, y) == x[1] * y[2] < y[1] * x[2]
QScale(k, x) == Q(k * x[1], x[2])
\* x ** -1 followed by _val[torch.isinf(_val)] = 0
QNeg1(x) == IF x[1] = 0 THEN <<0, 1>> ELSE Q(x[2], x[1])

RECURSIVE QSum(_)
QSum(s) == IF s = << >> THEN <<0, 1>> ELSE QAdd(Head(s), QSum(Tail(s)))

RECURSIVE NatSum(_)
NatSum(s) == IF s = << >> THEN 0 ELSE Head(s) + NatSum(Tail(s))

\* Python's sorted() on a list of ints
RECURSIVE InsertSorted(_, _)
InsertSorted(x, s) ==
    IF s = << >> THEN <<x>>
    ELSE IF x <= Head(s) THEN <<x>> \o s
    ELSE <<Head(s)>> \o InsertSorted(x, Tail(s))

RECURSIVE sorted(_)
sorted(s) == IF s = << >> THEN << >> ELSE InsertSorted(Head(s), sorted(Tail(s)))

EmptyDict == [k \in {} |-> 0]
Put(f, k, v) == [x \in (DOMAIN f) \cup {k} |-> IF x = k THEN v ELSE f[x]]
Pop(f, k) == [x \in (DOMAIN f) \ {k} |-> f[x]]

-----------------------------------------------------------------------------
(* The raw store: _raw_groups is a dict group name -> dict code -> content. *)

group_names(rg) == [i \in 1..Len(rg) |-> rg[i].name]
HasGroup(rg, g) == \E i \in 1..Len(rg) : rg[i].name = g
GroupIdx(rg, g) == CHOOSE i \in 1..Len(rg) : rg[i].name = g
EdgesOf(rg, g) == rg[GroupIdx(rg, g)].edges
HasCode(edges, code) == \E i \in 1..Len(edges) : edges[i].code = code
CodeIdx(edges, code) == CHOOSE i \in 1..Len(edges) : edges[i].code = code

_hyperedge_code(src_v_set, dst_v_set) == <<src_v_set, dst_v_set>>

\* fault injection: _format_e_list that keeps the members in the given order
_format_e_list_unsorted(e_list) ==
    IF Len(e_list) = 0 THEN [ok |-> FALSE, es |-> << >>]
    ELSE [ok |-> TRUE, es |-> e_list]

\* _format_e_list: every hyperedge becomes the sorted tuple of its members.
\* e_list[0] of an empty list raises IndexError.  An e_list is a list of
\* hyperedges (List[List[int]]); the one-hyperedge shorthand List[int] of
\* line 178 is the same call with [e_list] and is not a separate input here.
_format_e_list(e_list) ==
    IF Len(e_list) = 0 THEN [ok |-> FALSE, es |-> << >>]
    ELSE [ok |-> TRUE, es |-> [i \in 1..Len(e_list) |-> sorted(e_list[i])]]

\* fault injection: "mean" written x + y / 2
_merge_func_precedence(op, x, y) ==
    CASE op = "mean" -> QAdd(x, QDiv2(y))
      [] op = "sum" -> QAdd(x, y)
      [] op = "max" -> IF QLess(x, y) THEN y ELSE x
      [] OTHER -> x

_merge_func(op, x, y) ==
    CASE op = "mean" -> QDiv2(QAdd(x, y))
      [] op = "sum" -> QAdd(x, y)
      [] op = "max" -> IF QLess(x, y) THEN y ELSE x
      [] OTHER -> x

\* A content is a dict with the key "w_e" and, when stored by
\* BaseHypergraph.add_hyperedges, the keys "w_v2e" and "w_e2v"; a value of
\* these two is [list |-> the weights] or [num |-> one float].
IsList(x) == "list" \in DOMAIN x
ConnectionKeys(e1, e2) == {"w_v2e", "w_e2v"} \cap DOMAIN e1 \cap DOMAIN e2

\* for comparison: a merge that keeps the connection weights as lists and
\* merges them position by position
_merge_hyperedges_elementwise(e1, e2, op) ==
    IF op \notin {"mean", "sum", "max"} THEN [ok |-> FALSE, e |-> e1]
    ELSE IF \E k \in ConnectionKeys(e1, e2) : ~IsList(e1[k]) \/ ~IsList(e2[k])
         THEN [ok |-> FALSE, e |-> e1]
    ELSE [ok |-> TRUE,
          e |-> [k \in {"w_e"} \cup ConnectionKeys(e1, e2) |->
                   IF k = "w_e" THEN _merge_func(op, e1.w_e, e2.w_e)
                   ELSE [list |-> [i \in 1..Len(e1[k].list) |->
                                     _merge_func(op, e1[k].list[i], e2[k].list[i])]]]]

\* _merge_hyperedges: asserts the operation, then for each of "w_v2e" and
\* "w_e2v" that both contents have, runs over range(len(e1[key])) assigning
\* _e[key] = _func[op](e1[key][_idx], e2[key][_idx]) (the key is left out when
\* the range is empty; len() of a float raises), then merges w_e.  The
\* contents stored by Hypergraph carry no connection weights.
_merge_hyperedges(e1, e2, op) ==
    IF op \notin {"mean", "sum", "max"} THEN [ok |-> FALSE, e |-> e1]
    ELSE IF \E k \in ConnectionKeys(e1, e2) :
              \/ ~IsList(e1[k])
              \/ ~IsList(e2[k])
              \/ Len(e2[k].list) < Len(e1[k].list)
         THEN [ok |-> FALSE, e |-> e1]
    ELSE [ok |-> TRUE,
          e |-> [k \in {"w_e"} \cup {c \in ConnectionKeys(e1, e2) : Len(e1[c].list) > 0} |->
                   IF k = "w_e" THEN _merge_func(op, e1.w_e, e2.w_e)
                   ELSE [num |-> _merge_func(op, e1[k].list[Len(e1[k].list)],
                                             e2[k].list[Len(e1[k].list)])]]]

\* the dict entry hyperedge_code -> content as a record of the raw store
Stored_content(hyperedge_code, content) ==
    [k \in {"code"} \cup DOMAIN content |->
        IF k = "code" THEN hyperedge_code ELSE content[k]]
Content(entry) == [k \in DOMAIN entry \ {"code"} |-> entry[k]]

_add_hyperedge(rg, hyperedge_code, content, merge_op, group_name) ==
    IF ~HasGroup(rg, group_name)
    THEN [ok |-> TRUE,
          rg |-> Append(rg, [name |-> group_name,
                             edges |-> <<Stored_content(hyperedge_code, content)>>])]
    ELSE LET gi == GroupIdx(rg, group_name)
             es == rg[gi].edges
         IN IF ~HasCode(es, hyperedge_code)
            THEN [ok |-> TRUE,
                  rg |-> [rg EXCEPT ![gi].edges =
                              Append(es, Stored_content(hyperedge_code, content))]]
            ELSE LET ci == CodeIdx(es, hyperedge_code)
                     m == _merge_hyperedges(Content(es[ci]), content, merge_op)
                 IN IF m.ok
                    THEN [ok |-> TRUE,
                          rg |-> [rg EXCEPT ![gi].edges[ci] =
                                      Stored_content(hyperedge_code, m.e)]]
                    ELSE [ok |-> FALSE, rg |-> rg]

\* fault injection: the loop over range(len(e_list) - 1)
RECURSIVE AddLoopShort(_, _, _, _, _, _)
AddLoopShort(rg, es, ws, merge_op, group_name, idx) ==
    IF idx > Len(es) - 1 THEN [ok |-> TRUE, rg |-> rg]
    ELSE LET r == _add_hyperedge(rg, _hyperedge_code(es[idx], es[idx]),
                                 [w_e |-> QInt(ws[idx])], merge_op, group_name)
         IN IF r.ok THEN AddLoopShort(r.rg, es, ws, merge_op, group_name, idx + 1)
            ELSE [ok |-> FALSE, rg |-> r.rg]

\* the for loop of Hypergraph.add_hyperedges: an exception leaves what the
\* earlier iterations stored
RECURSIVE AddLoop(_, _, _, _, _, _)
AddLoop(rg, es, ws, merge_op, group_name, idx) ==
    IF idx > Len(es) THEN [ok |-> TRUE, rg |-> rg]
    ELSE LET r == _add_hyperedge(rg, _hyperedge_code(es[idx], es[idx]),
                                 [w_e |-> QInt(ws[idx])], merge_op, group_name)
         IN IF r.ok THEN AddLoop(r.rg, es, ws, merge_op, group_name, idx + 1)
            ELSE [ok |-> FALSE, rg |-> r.rg]

\* fault injection: add_hyperedges without the assertion on len(e_weight)
AddRawUnchecked(rg, e_list, e_weight, merge_op, group_name) ==
    LET f == _format_e_list(e_list)
        ws == IF e_weight.given THEN e_weight.w ELSE [i \in 1..Len(f.es) |-> 1]
    IN IF ~f.ok \/ Len(f.es) > Len(ws) THEN [ok |-> FALSE, rg |-> rg]
       ELSE AddLoop(rg, f.es, ws, merge_op, group_name, 1)

\* Hypergraph.add_hyperedges up to its final _clear_cache:
\* e_weight is [given, w]; ok tells whether the call reaches _clear_cache.
AddRaw(rg, e_list, e_weight, merge_op, group_name) ==
    LET f == _format_e_list(e_list)
        ws == IF e_weight.given THEN e_weight.w ELSE [i \in 1..Len(f.es) |-> 1]
    IN IF ~f.ok THEN [ok |-> FALSE, rg |-> rg]
       ELSE IF Len(f.es) # Len(ws) THEN [ok |-> FALSE, rg |-> rg]
       ELSE AddLoop(rg, f.es, ws, merge_op, group_name, 1)

-----------------------------------------------------------------------------
(* Derived matrices.  A cache entry is [val, dev]: the matrix and the      *)
(* device its tensor lives on.                                             *)

Entry(val, dev) == [val |-> val, dev |-> dev]
Occurrences(s, x) == Cardinality({i \in 1..Len(s) : s[i] = x})
Transpose(m) == [r |-> m.c, c |-> m.r,
                 a |-> [i \in 1..m.c |-> [j \in 1..m.r |-> m.a[j][i]]]]
\* torch.cat(_, dim=1) of two matrices with the same number of rows
CatCols(m1, m2) == [r |-> m1.r, c |-> m1.c + m2.c,
                    a |-> [i \in 1..m1.r |-> m1.a[i] \o m2.a[i]]]
\* torch.sparse.sum(m, dim=1).to_dense()
RowSums(m) == [i \in 1..m.r |-> NatSum(m.a[i])]

\* _fetch_H_of_group: entry (v, e) of the coalesced tensor is the number of
\* times v is listed in hyperedge e; torch.sparse_coo_tensor rejects an index
\* outside the given size.
_fetch_H_of_group(hg, rg, select_idx, group_name) ==
    LET es == EdgesOf(rg, group_name)
        sub(e) == es[e].code[select_idx + 1]
    IN IF \E e \in 1..Len(es) : \E k \in 1..Len(sub(e)) : sub(e)[k] >= hg.num_v
       THEN [ok |-> FALSE, val |-> << >>]
       ELSE [ok |-> TRUE,
             val |-> [r |-> hg.num_v, c |-> Len(es),
                      a |-> [v \in 1..hg.num_v |->
                               [e \in 1..Len(es) |-> Occurrences(sub(e), v - 1)]]]]

\* _fetch_W_of_group: the w_e of the group's hyperedges in insertion order
_fetch_W_of_group(rg, group_name) ==
    LET es == EdgesOf(rg, group_name) IN [e \in 1..Len(es) |-> es[e].w_e]

\* self.group_cache is a defaultdict(dict): reading group_cache[g] creates g
GC(hg, g) == IF g \in DOMAIN hg.group_cache THEN hg.group_cache[g] ELSE EmptyDict
Touch(hg, g) == [hg EXCEPT !.group_cache = Put(@, g, GC(hg, g))]
SetG(hg, g, name, e) == [hg EXCEPT !.group_cache = Put(@, g, Put(GC(hg, g), name, e))]
InG(hg, g, name) == name \in DOMAIN GC(hg, g)
Ok(hg) == [ok |-> TRUE, hg |-> hg]
Fail(hg) == [ok |-> FALSE, hg |-> hg]

\* Each getter below is split in two: X(...) is the code up to the nested
\* getter call, XFrom(r, ...) is the rest of its body given that call's
\* outcome r (an exception in the nested call propagates).

H_v2e_of_groupFrom(hg, g, f) ==
    IF f.ok THEN Ok(SetG(hg, g, "H_v2e", Entry(f.val, hg.device)))
    ELSE Fail(Touch(hg, g))

H_v2e_of_group(hg, rg, g) ==
    IF ~HasGroup(rg, g) THEN Fail(hg)
    ELSE IF InG(hg, g, "H_v2e") THEN Ok(hg)
    ELSE H_v2e_of_groupFrom(hg, g, _fetch_H_of_group(hg, rg, 0, g))

H_of_groupFrom(r, g) ==
    IF r.ok THEN Ok(SetG(r.hg, g, "H", GC(r.hg, g)["H_v2e"])) ELSE r

H_of_group(hg, rg, g) ==
    IF ~HasGroup(rg, g) THEN Fail(hg)
    ELSE IF InG(hg, g, "H") THEN Ok(hg)
    ELSE H_of_groupFrom(H_v2e_of_group(Touch(hg, g), rg, g), g)

H_T_of_groupFrom(r, g) ==
    IF r.ok
    THEN Ok(SetG(r.hg, g, "H_T",
                 Entry(Transpose(GC(r.hg, g)["H"].val), GC(r.hg, g)["H"].dev)))
    ELSE r

H_T_of_group(hg, rg, g) ==
    IF ~HasGroup(rg, g) THEN Fail(hg)
    ELSE IF InG(hg, g, "H_T") THEN Ok(hg)
    ELSE H_T_of_groupFrom(H_of_group(Touch(hg, g), rg, g), g)

W_e_of_group(hg, rg, g) ==
    IF ~HasGroup(rg, g) THEN Fail(hg)
    ELSE IF InG(hg, g, "W_e") THEN Ok(hg)
    ELSE Ok(SetG(hg, g, "W_e", Entry(_fetch_W_of_group(rg, g), hg.device)))

\* H.mul(w_e).sum(dim=1): row sums of H with column e scaled by w_e[e]; the
\* elementwise product needs both operands on one device
WeightedRowSums(h, w) ==
    [v \in 1..h.r |-> QSum([e \in 1..h.c |-> QScale(h.a[v][e], w[e])])]

D_v_of_groupFrom(r, g) ==
    IF ~r.ok THEN r
    ELSE IF GC(r.hg, g)["H"].dev # GC(r.hg, g)["W_e"].dev
            \/ GC(r.hg, g)["H"].val.c # Len(GC(r.hg, g)["W_e"].val)
         THEN Fail(r.hg)
    ELSE Ok(SetG(r.hg, g, "D_v",
                 Entry(WeightedRowSums(GC(r.hg, g)["H"].val, GC(r.hg, g)["W_e"].val),
                       r.hg.device)))

D_v_of_groupW(r, rg, g) ==
    IF r.ok THEN D_v_of_groupFrom(W_e_of_group(r.hg, rg, g), g) ELSE r

D_v_of_group(hg, rg, g) ==
    IF ~HasGroup(rg, g) THEN Fail(hg)
    ELSE IF InG(hg, g, "D_v") THEN Ok(hg)
    ELSE D_v_of_groupW(H_of_group(Touch(hg, g), rg, g), rg, g)

\* fault injection: the width of H_T for the degree of every hyperedge
MemberCountsWidth(t) == [e \in 1..t.r |-> QInt(t.c)]

\* torch.sparse.sum(H_T, dim=1): the number of members listed by each hyperedge
MemberCounts(t) == [e \in 1..t.r |-> QInt(RowSums(t)[e])]

D_e_of_groupFrom(r, g) ==
    IF r.ok
    THEN Ok(SetG(r.hg, g, "D_e", Entry(MemberCounts(GC(r.hg, g)["H_T"].val), r.hg.device)))
    ELSE r

D_e_of_group(hg, rg, g) ==
    IF ~HasGroup(rg, g) THEN Fail(hg)
    ELSE IF InG(hg, g, "D_e") THEN Ok(hg)
    ELSE D_e_of_groupFrom(H_T_of_group(Touch(hg, g), rg, g), g)

\* _mat ** -1 with the infinite entries set to 0
Neg1(d) == [i \in 1..Len(d) |-> QNeg1(d[i])]

D_v_neg_1_of_groupFrom(r, g) ==
    IF r.ok
    THEN Ok(SetG(r.hg, g, "D_v_neg_1", Entry(Neg1(GC(r.hg, g)["D_v"].val), r.hg.device)))
    ELSE r

D_v_neg_1_of_group(hg, rg, g) ==
    IF ~HasGroup(rg, g) THEN Fail(hg)
    ELSE IF InG(hg, g, "D_v_neg_1") THEN Ok(hg)
    ELSE D_v_neg_1_of_groupFrom(D_v_of_group(Touch(hg, g), rg, g), g)

D_e_neg_1_of_groupFrom(r, g) ==
    IF r.ok
    THEN Ok(SetG(r.hg, g, "D_e_neg_1", Entry(Neg1(GC(r.hg, g)["D_e"].val), r.hg.device)))
    ELSE r

D_e_neg_1_of_group(hg, rg, g) ==
    IF ~HasGroup(rg, g) THEN Fail(hg)
    ELSE IF InG(hg, g, "D_e_neg_1") THEN Ok(hg)
    ELSE D_e_neg_1_of_groupFrom(D_e_of_group(Touch(hg, g), rg, g), g)

GroupMatrixNames ==
    {"H_v2e", "H", "H_T", "W_e", "D_v", "D_e", "D_v_neg_1", "D_e_neg_1"}

ReadOfGroup(name, hg, rg, g) ==
    CASE name = "H_v2e" -> H_v2e_of_group(hg, rg, g)
      [] name = "H" -> H_of_group(hg, rg, g)
      [] name = "H_T" -> H_T_of_group(hg, rg, g)
      [] name = "W_e" -> W_e_of_group(hg, rg, g)
      [] name = "D_v" -> D_v_of_group(hg, rg, g)
      [] name = "D_e" -> D_e_of_group(hg, rg, g)
      [] name = "D_v_neg_1" -> D_v_neg_1_of_group(hg, rg, g)
      [] OTHER -> D_e_neg_1_of_group(hg, rg, g)

-----------------------------------------------------------------------------
(* Structure-wide matrices: built from the per-group ones, group by group   *)
(* in group_names order.                                                    *)

\* [self.X_of_group(name) for name in self.group_names]: stops at the first
\* group whose read raises, keeping what the earlier reads cached
RECURSIVE ForGroups(_, _, _, _)
RECURSIVE ForGroupsFrom(_, _, _, _)
ForGroupsFrom(name, r, rg, i) ==
    IF r.ok THEN ForGroups(name, r.hg, rg, i + 1) ELSE r

ForGroups(name, hg, rg, i) ==
    IF i > Len(rg) THEN Ok(hg)
    ELSE ForGroupsFrom(name, ReadOfGroup(name, hg, rg, rg[i].name), rg, i)

GroupEntries(name, hg, rg) == [i \in 1..Len(rg) |-> GC(hg, rg[i].name)[name]]
Vals(es) == [i \in 1..Len(es) |-> es[i].val]
SameDev(es) == \A i, j \in 1..Len(es) : es[i].dev = es[j].dev

RECURSIVE CatAllCols(_)
CatAllCols(ms) ==
    IF Len(ms) = 1 THEN ms[1] ELSE CatCols(ms[1], CatAllCols(Tail(ms)))

RECURSIVE CatAll(_)
CatAll(ss) == IF ss = << >> THEN << >> ELSE Head(ss) \o CatAll(Tail(ss))

\* torch.vstack(_tmp).sum(dim=0): the sum over groups of the per-group degrees
SumOverGroups(ds, n) == [v \in 1..n |-> QSum([i \in 1..Len(ds) |-> ds[i][v]])]

InC(hg, name) == name \in DOMAIN hg.cache
SetC(hg, name, e) == [hg EXCEPT !.cache = Put(@, name, e)]

\* torch.cat / torch.vstack of the per-group tensors: an empty list, or
\* tensors on different devices, raise
CanGather(es) == Len(es) > 0 /\ SameDev(es)

H_v2eFrom(r, es) ==
    IF ~r.ok THEN r
    ELSE IF ~CanGather(es) THEN Fail(r.hg)
    ELSE Ok(SetC(r.hg, "H_v2e", Entry(CatAllCols(Vals(es)), es[1].dev)))

H_v2eGather(r, rg) ==
    H_v2eFrom(r, IF r.ok THEN GroupEntries("H_v2e", r.hg, rg) ELSE << >>)

H_v2e(hg, rg) ==
    IF InC(hg, "H_v2e") THEN Ok(hg)
    ELSE H_v2eGather(ForGroups("H_v2e", hg, rg, 1), rg)

HFrom(r) == IF r.ok THEN Ok(SetC(r.hg, "H", r.hg.cache["H_v2e"])) ELSE r

H(hg, rg) == IF InC(hg, "H") THEN Ok(hg) ELSE HFrom(H_v2e(hg, rg))

H_TFrom(r) ==
    IF r.ok
    THEN Ok(SetC(r.hg, "H_T", Entry(Transpose(r.hg.cache["H"].val), r.hg.cache["H"].dev)))
    ELSE r

H_T(hg, rg) == IF InC(hg, "H_T") THEN Ok(hg) ELSE H_TFrom(H(hg, rg))

\* torch.Tensor(self.v_weight) raises when _v_weight is None (after clear())
W_v(hg, rg) ==
    IF InC(hg, "W_v") THEN Ok(hg)
    ELSE IF hg.v_weight = << >> THEN Fail(hg)
    ELSE Ok(SetC(hg, "W_v",
                 Entry([i \in 1..Len(hg.v_weight) |-> QInt(hg.v_weight[i])], hg.device)))

W_eFrom(r, es) ==
    IF ~r.ok THEN r
    ELSE IF ~CanGather(es) THEN Fail(r.hg)
    ELSE Ok(SetC(r.hg, "W_e", Entry(CatAll(Vals(es)), r.hg.device)))

W_eGather(r, rg) ==
    W_eFrom(r, IF r.ok THEN GroupEntries("W_e", r.hg, rg) ELSE << >>)

W_e(hg, rg) ==
    IF InC(hg, "W_e") THEN Ok(hg) ELSE W_eGather(ForGroups("W_e", hg, rg, 1), rg)

D_vFrom(r, es) ==
    IF ~r.ok THEN r
    ELSE IF ~CanGather(es) THEN Fail(r.hg)
    ELSE Ok(SetC(r.hg, "D_v", Entry(SumOverGroups(Vals(es), r.hg.num_v), r.hg.device)))

D_vGather(r, rg) ==
    D_vFrom(r, IF r.ok THEN GroupEntries("D_v", r.hg, rg) ELSE << >>)

D_v(hg, rg) ==
    IF InC(hg, "D_v") THEN Ok(hg) ELSE D_vGather(ForGroups("D_v", hg, rg, 1), rg)

D_eFrom(r, es) ==
    IF ~r.ok THEN r
    ELSE IF ~CanGather(es) THEN Fail(r.hg)
    ELSE Ok(SetC(r.hg, "D_e", Entry(CatAll(Vals(es)), r.hg.device)))

D_eGather(r, rg) ==
    D_eFrom(r, IF r.ok THEN GroupEntries("D_e", r.hg, rg) ELSE << >>)

D_e(hg, rg) ==
    IF InC(hg, "D_e") THEN Ok(hg) ELSE D_eGather(ForGroups("D_e", hg, rg, 1), rg)

D_v_neg_1From(r) ==
    IF r.ok
    THEN Ok(SetC(r.hg, "D_v_neg_1", Entry(Neg1(r.hg.cache["D_v"].val), r.hg.device)))
    ELSE r

D_v_neg_1(hg, rg) ==
    IF InC(hg, "D_v_neg_1") THEN Ok(hg) ELSE D_v_neg_1From(D_v(hg, rg))

D_e_neg_1From(r) ==
    IF r.ok
    THEN Ok(SetC(r.hg, "D_e_neg_1", Entry(Neg1(r.hg.cache["D_e"].val), r.hg.device)))
    ELSE r

D_e_neg_1(hg, rg) ==
    IF InC(hg, "D_e_neg_1") THEN Ok(hg) ELSE D_e_neg_1From(D_e(hg, rg))

MatrixNames ==
    {"H_v2e", "H", "H_T", "W_v", "W_e", "D_v", "D_e", "D_v_neg_1", "D_e_neg_1"}

ReadGlobal(name, hg, rg) ==
    CASE name = "H_v2e" -> H_v2e(hg, rg)
      [] name = "H" -> H(hg, rg)
      [] name = "H_T" -> H_T(hg, rg)
      [] name = "W_v" -> W_v(hg, rg)
      [] name = "W_e" -> W_e(hg, rg)
      [] name = "D_v" -> D_v(hg, rg)
      [] name = "D_e" -> D_e(hg, rg)
      [] name = "D_v_neg_1" -> D_v_neg_1(hg, rg)
      [] OTHER -> D_e_neg_1(hg, rg)

-----------------------------------------------------------------------------
(* Operations on one Hypergraph object.                                    *)

None == [given |-> FALSE, g |-> ""]
Some(g) == [given |-> TRUE, g |-> g]

\* fault injection: _clear_cache that drops every group's cache
_clear_cache_every_group(hg, group_name) ==
    [hg EXCEPT !.cache = EmptyDict, !.group_cache = EmptyDict]

\* _clear_cache(group_name=None)
_clear_cache(hg, group_name) ==
    [hg EXCEPT !.cache = EmptyDict,
               !.group_cache = IF group_name.given THEN Pop(@, group_name.g) ELSE EmptyDict]

\* BaseHypergraph.__init__ after its assertion: clear(), _num_v, device;
\* then Hypergraph.__init__ sets _v_weight (None is [1.0] * num_v)
NewHypergraph(num_v, v_weight, device, raw) ==
    [num_v |-> num_v,
     v_weight |-> IF v_weight.given THEN v_weight.w ELSE [i \in 1..num_v |-> 1],
     raw |-> raw,
     cache |-> EmptyDict,
     group_cache |-> EmptyDict,
     device |-> device]

NoVWeight == [given |-> FALSE, w |-> << >>]
NoEWeight == [given |-> FALSE, w |-> << >>]

\* the names of vars_for_DL that are cached matrices of this model
\* ("H_v2e" is not among them)
vars_for_DL == {"H", "H_T", "W_v", "W_e", "D_v", "D_v_neg_1", "D_e", "D_e_neg_1"}

MoveDict(d, device) ==
    [k \in DOMAIN d |-> IF k \in vars_for_DL THEN Entry(d[k].val, device) ELSE d[k]]

\* BaseHypergraph.to: group_cache[name] is read for every group name
to(hg, rg, device) ==
    [hg EXCEPT !.device = device,
               !.cache = MoveDict(@, device),
               !.group_cache =
                   [g \in (DOMAIN @) \cup {rg[i].name : i \in 1..Len(rg)} |->
                        MoveDict(GC(hg, g), device)]]

-----------------------------------------------------------------------------
(* The heap of raw-group dicts.  Dicts no object and no state dict refers   *)
(* to are dropped and the references renumbered in order.                   *)

Refs(hs, d) == {hs[i].raw : i \in 1..Len(hs)} \cup {d[i].raw : i \in 1..Len(d)}
NewIdx(rs, k) == Cardinality({r \in rs : r <= k})

RECURSIVE KeepRefs(_, _, _)
KeepRefs(st, rs, k) ==
    IF k > Len(st) THEN << >>
    ELSE (IF k \in rs THEN <<st[k]>> ELSE << >>) \o KeepRefs(st, rs, k + 1)

Collect(hs, st, d) ==
    LET rs == Refs(hs, d)
    IN [hgs |-> [i \in 1..Len(hs) |-> [hs[i] EXCEPT !.raw = NewIdx(rs, @)]],
        stores |-> KeepRefs(st, rs, 1),
        sd |-> [i \in 1..Len(d) |-> [d[i] EXCEPT !.raw = NewIdx(rs, @)]]]

Update(hs, st, d) ==
    LET c == Collect(hs, st, d)
    IN hgs' = c.hgs /\ stores' = c.stores /\ sd' = c.sd

\* what a step records of the call it made: the operation, the object it
\* was called on (the new object for a constructor), whether it returned,
\* its arguments, and the object and its raw groups as the call found them
Called(op, h, ok, args, before) ==
    /\ steps' = steps + 1
    /\ last' = [op |-> op, h |-> h, ok |-> ok, args |-> args, before |-> before]
    /\ out' = << >>
    /\ threads' = threads

\* the same for a call that returns a feature tensor with rows x
Returned(op, h, ok, args, before, x) ==
    /\ steps' = steps + 1
    /\ last' = [op |-> op, h |-> h, ok |-> ok, args |-> args, before |-> before]
    /\ out' = x
    /\ threads' = threads

RawOf(h) == stores[hgs[h].raw]
Objects == 1..Len(hgs)
Before(h) == [hg |-> hgs[h], rg |-> RawOf(h)]
NoBefore == [hg |-> << >>, rg |-> << >>]

\* the num_e property
num_e(rg) == NatSum([i \in 1..Len(rg) |-> Len(rg[i].edges)])

-----------------------------------------------------------------------------
(* Arguments supplied by callers.                                          *)

\* e_list arguments: the empty list, one hyperedge, the same code twice (as a
\* permutation), and two different codes in either order
EListInputs ==
    {<< >>, <<<<0, 1>>>>, <<<<1, 0>>>>, <<<<2, 2>>>>,
     <<<<0, 1>>, <<1, 0>>>>, <<<<0, 1>>, <<2, 2>>>>, <<<<2, 2>>, <<0, 1>>>>}
\* e_weight: omitted, 2.0 3.0 ..., or one weight too many
EWeightInputs(n) ==
    {NoEWeight,
     [given |-> TRUE, w |-> [i \in 1..n |-> i + 1]],
     [given |-> TRUE, w |-> [i \in 1..(n + 1) |-> 1]]}
\* v_weight: omitted, 2.0 1.0 ... of length num_v, or one weight too many
VWeightInputs(n) ==
    {NoVWeight} \cup
    {[given |-> TRUE, w |-> [i \in 1..k |-> IF i = 1 THEN 2 ELSE 1]] : k \in {n, n + 1}}
GroupArgs == {None} \cup {Some(g) : g \in GroupNames}
AggrInputs == {"mean", "sum", "median"}

-----------------------------------------------------------------------------
(* The calls.                                                              *)

\* Hypergraph.__init__(num_v, e_list, v_weight=v_weight) on a new object
\* whose raw groups are the new dict at heap index raw: e_list is << >>
\* (None) or <<the list>>; ok tells whether __init__ returns
Hypergraph(num_v, e_list, v_weight, raw) ==
    LET a == IF e_list = << >> THEN [ok |-> TRUE, rg |-> << >>]
             ELSE AddRaw(<< >>, e_list[1], NoEWeight, "mean", "main")
    IN [ok |-> num_v > 0 /\ (v_weight.given => Len(v_weight.w) = num_v) /\ a.ok,
        hg |-> _clear_cache(NewHypergraph(num_v, v_weight, "cpu", raw), Some("main")),
        rg |-> a.rg]

\* a constructor call; the object exists only if __init__ returns
Construct(num_v, e_list, v_weight) ==
    /\ Len(hgs) < MaxHG
    /\ LET c == Hypergraph(num_v, e_list, v_weight, Len(stores) + 1)
       IN /\ IF c.ok
             THEN Update(Append(hgs, c.hg), Append(stores, c.rg), sd)
             ELSE UNCHANGED <<hgs, stores, sd>>
          /\ Called("Hypergraph", IF c.ok THEN Len(hgs) + 1 ELSE 0, c.ok,
                    <<num_v, e_list, v_weight>>, NoBefore)
    /\ UNCHANGED file

add_hyperedges(h, e_list, e_weight, merge_op, group_name) ==
    LET a == AddRaw(RawOf(h), e_list, e_weight, merge_op, group_name)
    IN /\ Update([hgs EXCEPT ![h] = IF a.ok THEN _clear_cache(@, Some(group_name)) ELSE @],
                 [stores EXCEPT ![hgs[h].raw] = a.rg], sd)
       /\ Called("add_hyperedges", h, a.ok,
                 <<e_list, e_weight, merge_op, group_name>>, Before(h))
       /\ UNCHANGED file

\* dict.pop(e_code, None) on a group
PopCode(edges, code) ==
    IF HasCode(edges, code)
    THEN SubSeq(edges, 1, CodeIdx(edges, code) - 1)
         \o SubSeq(edges, CodeIdx(edges, code) + 1, Len(edges))
    ELSE edges

\* fault injection: the loop left after its first iteration
RemoveLoopOnce(edges, v2e, e2v, idx) ==
    IF idx > Len(v2e) THEN edges
    ELSE PopCode(edges, _hyperedge_code(v2e[idx], e2v[idx]))

\* the loop of BaseHypergraph.remove_hyperedges over the formatted lists
\* (the branch for a given group_name)
RECURSIVE RemoveLoop(_, _, _, _)
RemoveLoop(edges, v2e, e2v, idx) ==
    IF idx > Len(v2e) THEN edges
    ELSE RemoveLoop(PopCode(edges, _hyperedge_code(v2e[idx], e2v[idx])), v2e, e2v, idx + 1)

\* BaseHypergraph.remove_hyperedges up to its final _clear_cache: the first
\* assertion fails for group_name None, which is no group name
RemoveRaw(rg, e_list_v2e, e_list_e2v, group_name) ==
    IF ~group_name.given \/ ~HasGroup(rg, group_name.g) THEN [ok |-> FALSE, rg |-> rg]
    ELSE IF Len(e_list_v2e) # Len(e_list_e2v) THEN [ok |-> FALSE, rg |-> rg]
    ELSE IF ~_format_e_list(e_list_v2e).ok \/ ~_format_e_list(e_list_e2v).ok
         THEN [ok |-> FALSE, rg |-> rg]
    ELSE [ok |-> TRUE,
          rg |-> [rg EXCEPT ![GroupIdx(rg, group_name.g)].edges =
                      RemoveLoop(@, _format_e_list(e_list_v2e).es,
                                 _format_e_list(e_list_e2v).es, 1)]]

remove_hyperedges(h, e_list_v2e, e_list_e2v, group_name) ==
    LET r == RemoveRaw(RawOf(h), e_list_v2e, e_list_e2v, group_name)
    IN /\ Update([hgs EXCEPT ![h] = IF r.ok THEN _clear_cache(@, group_name) ELSE @],
                 [stores EXCEPT ![hgs[h].raw] = r.rg], sd)
       /\ Called("remove_hyperedges", h, r.ok,
                 <<e_list_v2e, e_list_e2v, group_name>>, Before(h))
       /\ UNCHANGED file

\* fault injection: clear() that also resets _num_v
clear_num_v(h) ==
    /\ Update([hgs EXCEPT ![h] = [_clear_cache(@, None) EXCEPT
                                      !.v_weight = << >>, !.raw = Len(stores) + 1,
                                      !.num_v = 0]],
              Append(stores, << >>), sd)
    /\ Called("clear", h, TRUE, << >>, Before(h))
    /\ UNCHANGED file

\* clear(): _clear_raw() binds a new empty dict and drops _v_weight
clear(h) ==
    /\ Update([hgs EXCEPT ![h] = [_clear_cache(@, None) EXCEPT
                                      !.v_weight = << >>, !.raw = Len(stores) + 1]],
              Append(stores, << >>), sd)
    /\ Called("clear", h, TRUE, << >>, Before(h))
    /\ UNCHANGED file

\* clone(): a new Hypergraph(num_v, device) with deep copies of the raw
\* groups and of both caches
clone(h) ==
    /\ Len(hgs) < MaxHG
    /\ LET hg == NewHypergraph(hgs[h].num_v, NoVWeight, hgs[h].device, Len(stores) + 1)
       IN Update(Append(hgs, [hg EXCEPT !.cache = hgs[h].cache,
                                        !.group_cache = hgs[h].group_cache]),
                 Append(stores, RawOf(h)), sd)
    /\ Called("clone", h, TRUE, << >>, Before(h))
    /\ UNCHANGED file

\* the state_dict property: the dict refers to self._raw_groups itself
state_dict(h) ==
    /\ Update(hgs, stores, <<[num_v |-> hgs[h].num_v, raw |-> hgs[h].raw]>>)
    /\ Called("state_dict", h, TRUE, << >>, Before(h))
    /\ UNCHANGED file

\* fault injection: from_state_dict without the deepcopy
FromStateDictShared(st, num_v, raw_groups) ==
    [hg |-> NewHypergraph(num_v, NoVWeight, "cpu", raw_groups), st |-> st]

\* from_state_dict on the heap st: _hg = Hypergraph(num_v), then
\* _hg._raw_groups = deepcopy(raw_groups), a new dict with the contents of
\* the dict at index raw_groups
FromStateDict(st, num_v, raw_groups) ==
    [hg |-> NewHypergraph(num_v, NoVWeight, "cpu", Len(st) + 1),
     st |-> Append(st, st[raw_groups])]

from_state_dict ==
    /\ Len(hgs) < MaxHG
    /\ sd # << >>
    /\ LET r == FromStateDict(stores, sd[1].num_v, sd[1].raw)
       IN Update(Append(hgs, r.hg), r.st, sd)
    /\ Called("from_state_dict", Len(hgs) + 1, TRUE, << >>, NoBefore)
    /\ UNCHANGED file

\* pickle.dump(data, fp): the stream of items written, the raw groups as
\* (group, name, size) followed by the group's (edge, code, w_e) items
DumpEdges(es) == [i \in 1..Len(es) |-> <<"edge", es[i].code, es[i].w_e>>]

RECURSIVE DumpGroups(_)
DumpGroups(rg) ==
    IF rg = << >> THEN << >>
    ELSE <<<<"group", Head(rg).name, Len(Head(rg).edges)>>>>
         \o DumpEdges(Head(rg).edges) \o DumpGroups(Tail(rg))

pickle_dump(data) ==
    <<<<"class", data.class>>, <<"num_v", data.state_dict.num_v>>>>
    \o DumpGroups(data.state_dict.raw_groups)

\* pickle.load(fp): the data rebuilt from the stream
LoadEdges(items, n) ==
    [i \in 1..n |-> [code |-> items[i + 1][2], w_e |-> items[i + 1][3]]]

RECURSIVE LoadGroups(_)
LoadGroups(items) ==
    IF items = << >> THEN << >>
    ELSE <<[name |-> items[1][2], edges |-> LoadEdges(items, items[1][3])]>>
         \o LoadGroups(SubSeq(items, items[1][3] + 2, Len(items)))

pickle_load(fp) ==
    [class |-> fp[1][2],
     state_dict |-> [num_v |-> fp[2][2], raw_groups |-> LoadGroups(SubSeq(fp, 3, Len(fp)))]]

\* save: pickle.dump of {"class", "state_dict"} writes the current contents
save(h) ==
    /\ file' = <<pickle_dump([class |-> "Hypergraph",
                              state_dict |-> [num_v |-> hgs[h].num_v,
                                              raw_groups |-> RawOf(h)]])>>
    /\ Called("save", h, TRUE, << >>, Before(h))
    /\ UNCHANGED <<hgs, stores, sd>>

\* load: the unpickled raw groups are a new dict, which from_state_dict
\* copies and nothing refers to afterwards
load ==
    /\ Len(hgs) < MaxHG
    /\ file # << >>
    /\ LET data == pickle_load(file[1])
           r == FromStateDict(Append(stores, data.state_dict.raw_groups),
                              data.state_dict.num_v, Len(stores) + 1)
       IN /\ data.class = "Hypergraph"
          /\ Update(Append(hgs, r.hg), r.st, sd)
    /\ Called("load", Len(hgs) + 1, TRUE, << >>, NoBefore)
    /\ UNCHANGED file

\* reading a structure-wide matrix property
Read(h, name) ==
    LET r == ReadGlobal(name, hgs[h], RawOf(h))
    IN /\ hgs' = [hgs EXCEPT ![h] = r.hg]
       /\ Called("read", h, r.ok, <<name>>, Before(h))
       /\ UNCHANGED <<stores, sd, file>>

\* reading a per-group matrix
Read_of_group(h, name, g) ==
    LET r == ReadOfGroup(name, hgs[h], RawOf(h), g)
    IN /\ hgs' = [hgs EXCEPT ![h] = r.hg]
       /\ Called("read_of_group", h, r.ok, <<name, g>>, Before(h))
       /\ UNCHANGED <<stores, sd, file>>

MoveTo(h, device) ==
    /\ hgs' = [hgs EXCEPT ![h] = to(@, RawOf(h), device)]
    /\ Called("to", h, TRUE, <<device>>, Before(h))
    /\ UNCHANGED <<stores, sd, file>>

\* the assignment hg.v_weight = v_weight.  Hypergraph.v_weight (lines
\* 1035-1039) is a property with a getter only; it hides
\* BaseHypergraph.v_weight together with its setter (lines 414-421), so
\* the assignment raises AttributeError and nothing is assigned.
v_weight_setter(h, v_weight) ==
    /\ Called("v_weight.setter", h, FALSE, <<v_weight>>, Before(h))
    /\ UNCHANGED <<hgs, stores, sd, file>>

-----------------------------------------------------------------------------
(* Message passing.  A feature tensor X is [dev, val]: its device and its  *)
(* rows, each a sequence of rationals.  A call ends as [ok, hg, x]: whether *)
(* it returned, the object it leaves (device, caches filled) and the rows   *)
(* of the tensor it returns.  torch.sparse.mm needs both operands on one    *)
(* device and the inner sizes to agree.                                     *)

OkX(hg, x) == [ok |-> TRUE, hg |-> hg, x |-> x]
FailX(hg) == [ok |-> FALSE, hg |-> hg, x |-> << >>]
Tensor(dev, rows) ==
    [dev |-> dev,
     val |-> [i \in 1..Len(rows) |-> [k \in 1..Len(rows[i]) |-> QInt(rows[i][k])]]]
QMul(x, y) == Q(x[1] * y[1], x[2] * y[2])
Cols(x) == IF x = << >> THEN 0 ELSE Len(x[1])

\* a cached incidence matrix as the sparse tensor it is: nz are the indices of
\* its coalesced values, a the values as floats
Indices(m) == {p \in (1..m.r) \X (1..m.c) : m.a[p[1]][p[2]] # 0}
Sparse(e) ==
    [dev |-> e.dev, r |-> e.val.r, c |-> e.val.c, nz |-> Indices(e.val),
     a |-> [i \in 1..e.val.r |-> [j \in 1..e.val.c |-> QInt(e.val.a[i][j])]]]
\* the place of index p in M._indices() of a coalesced tensor (row-major)
Rank(nz, p) == Cardinality({q \in nz : q[1] < p[1] \/ (q[1] = p[1] /\ q[2] <= p[2])})
\* torch.sparse_coo_tensor(M._indices(), weight, M.shape, device=self.device)
WithValues(sp, w, dev) ==
    [sp EXCEPT !.dev = dev,
               !.a = [i \in 1..sp.r |-> [j \in 1..sp.c |->
                        IF <<i, j>> \in sp.nz THEN QInt(w[Rank(sp.nz, <<i, j>>)])
                        ELSE <<0, 1>>]]]

\* fault injection: sparse_dropout that returns its argument for every p
sparse_dropout_off(sp_mat, p, keep_mask) == [ok |-> TRUE, val |-> sp_mat]

\* sparse_dropout(sp_mat, p): keep_mask is the outcome of
\* torch.bernoulli(1 - p), the set of indices it keeps (none when p is 1);
\* fill_value is 0.0
sparse_dropout(sp_mat, p, keep_mask) ==
    IF QLess(p, <<0, 1>>) \/ QLess(<<1, 1>>, p) THEN [ok |-> FALSE, val |-> sp_mat]
    ELSE IF p = <<0, 1>> THEN [ok |-> TRUE, val |-> sp_mat]
    ELSE [ok |-> TRUE,
          val |-> [sp_mat EXCEPT !.a = [i \in 1..sp_mat.r |-> [j \in 1..sp_mat.c |->
                                          IF <<i, j>> \in keep_mask /\ p # <<1, 1>>
                                          THEN sp_mat.a[i][j]
                                          ELSE <<0, 1>>]]]]

\* the outcomes torch.bernoulli(1 - p) can have on the indices nz
Bernoulli(p, nz) ==
    IF p = <<1, 1>> THEN {{}} ELSE IF p = <<0, 1>> THEN {nz} ELSE SUBSET nz

\* "if drop_rate > 0.0: P = sparse_dropout(P, drop_rate)"
Dropped(sp, drop_rate, keep_mask) ==
    IF QLess(<<0, 1>>, drop_rate) THEN sparse_dropout(sp, drop_rate, keep_mask)
    ELSE [ok |-> TRUE, val |-> sp]

\* torch.sparse.mm(P, X)
CanMm(p, X) == p.dev = X.dev /\ p.c = Len(X.val)
SparseMm(p, x) ==
    [i \in 1..p.r |-> [k \in 1..Cols(x) |->
        QSum([j \in 1..p.c |-> QMul(p.a[i][j], x[j][k])])]]
\* torch.sparse.mm(D, X) for a cached diagonal matrix D, and d * X for a
\* column vector d
CanDiagMm(e, x, dev) == e.dev = dev /\ Len(e.val) = Len(x)
DiagMm(d, x) == [i \in 1..Len(d) |-> [k \in 1..Cols(x) |-> QMul(d[i], x[i][k])]]
\* torch.sparse.sum(P, dim=1).to_dense().view(-1, 1)
RowSumsOf(p) == [i \in 1..p.r |-> QSum(p.a[i])]
\* torch.sparse.softmax(P, dim=1) followed by torch.sparse.mm: the exponentials
\* are not rationals; the result is kept as a term
SoftmaxThenSum(p, x) == <<"softmax_then_sum", p.a, x>>

\* "if self.device != X.device: self.to(X.device)"
Relocate(hg, rg, xdev) == IF hg.device # xdev THEN to(hg, rg, xdev) ELSE hg

NoWeight == [given |-> FALSE, w |-> << >>]
NoDropRate == [given |-> FALSE, p |-> <<0, 1>>]
\* drop_rate: float = 0.0
DropRateOf(drop_rate) == IF drop_rate.given THEN drop_rate.p ELSE <<0, 1>>

\* v2e_aggregation, v2e_weight None, aggr "mean": r is the outcome of reading
\* self.D_e_neg_1, x the rows of torch.sparse.mm(P, X)
v2e_aggregationMean(r, x, dev) ==
    IF ~r.ok THEN FailX(r.hg)
    ELSE IF ~CanDiagMm(r.hg.cache["D_e_neg_1"], x, dev) THEN FailX(r.hg)
    ELSE OkX(r.hg, DiagMm(r.hg.cache["D_e_neg_1"].val, x))

\* fault injection: v2e_aggregation, v2e_weight None, that keeps the message
\* path it used as self.cache["H_T"]
v2e_aggregationPlain_caching(hg, rg, d, X, aggr) ==
    IF ~d.ok \/ ~CanMm(d.val, X) THEN FailX(hg)
    ELSE IF aggr = "mean"
         THEN v2e_aggregationMean(
                  D_e_neg_1(SetC(hg, "H_T",
                                 Entry([r |-> d.val.r, c |-> d.val.c,
                                        a |-> [i \in 1..d.val.r |-> [j \in 1..d.val.c |->
                                                 d.val.a[i][j][1]]]], d.val.dev)), rg),
                  SparseMm(d.val, X.val), X.dev)
    ELSE OkX(SetC(hg, "H_T",
                  Entry([r |-> d.val.r, c |-> d.val.c,
                         a |-> [i \in 1..d.val.r |-> [j \in 1..d.val.c |->
                                  d.val.a[i][j][1]]]], d.val.dev)),
             IF aggr = "sum" THEN SparseMm(d.val, X.val)
             ELSE SoftmaxThenSum(d.val, X.val))

\* v2e_aggregation, v2e_weight None: the branch on aggr for the message path d
v2e_aggregationPlain(hg, rg, d, X, aggr) ==
    IF ~d.ok \/ ~CanMm(d.val, X) THEN FailX(hg)
    ELSE IF aggr = "mean"
         THEN v2e_aggregationMean(D_e_neg_1(hg, rg), SparseMm(d.val, X.val), X.dev)
    ELSE IF aggr = "sum" THEN OkX(hg, SparseMm(d.val, X.val))
    ELSE OkX(hg, SoftmaxThenSum(d.val, X.val))

\* v2e_aggregation, v2e_weight given: the branch on aggr for the message path
\* d; "mean" multiplies by the row sums of P
v2e_aggregationWeighted(hg, d, X, aggr) ==
    IF ~d.ok \/ ~CanMm(d.val, X) THEN FailX(hg)
    ELSE IF aggr = "mean"
         THEN OkX(hg, DiagMm(RowSumsOf(d.val), SparseMm(d.val, X.val)))
    ELSE IF aggr = "sum" THEN OkX(hg, SparseMm(d.val, X.val))
    ELSE OkX(hg, SoftmaxThenSum(d.val, X.val))

\* v2e_aggregation after self.H_T was read with outcome r
v2e_aggregationFrom(r, rg, X, aggr, v2e_weight, drop_rate, keep_mask) ==
    IF ~r.ok THEN FailX(r.hg)
    ELSE IF ~v2e_weight.given
         THEN v2e_aggregationPlain(r.hg, rg,
                  Dropped(Sparse(r.hg.cache["H_T"]), drop_rate, keep_mask), X, aggr)
    ELSE IF Len(v2e_weight.w) # Cardinality(Indices(r.hg.cache["H_T"].val))
         THEN FailX(r.hg)
    ELSE v2e_aggregationWeighted(r.hg,
             Dropped(WithValues(Sparse(r.hg.cache["H_T"]), v2e_weight.w, r.hg.device),
                     drop_rate, keep_mask), X, aggr)

v2e_aggregation(hg, rg, X, aggr, v2e_weight, drop_rate, keep_mask) ==
    IF aggr \notin {"mean", "sum", "softmax_then_sum"} THEN FailX(hg)
    ELSE v2e_aggregationFrom(H_T(Relocate(hg, rg, X.dev), rg), rg, X, aggr,
                             v2e_weight, drop_rate, keep_mask)

\* fault injection: v2e_update that returns X as it is
v2e_update_skip(r, rg, dev, x) == IF r.ok THEN OkX(r.hg, x) ELSE FailX(r.hg)

\* v2e_update(X) with e_weight None, after self.W_e was read with outcome r
v2e_updateFrom(r, rg, dev, x) ==
    IF ~r.ok THEN FailX(r.hg)
    ELSE IF ~CanDiagMm(r.hg.cache["W_e"], x, dev) THEN FailX(r.hg)
    ELSE OkX(r.hg, DiagMm(r.hg.cache["W_e"].val, x))

\* e_weight * X for the column e_weight.view(-1, 1): broadcasting needs equal
\* numbers of rows, or one row on either side
CanBroadcast(w, x) == Len(w) = Len(x) \/ Len(w) = 1 \/ Len(x) = 1
BroadcastMul(w, x) ==
    [i \in 1..(IF Len(w) = 1 THEN Len(x) ELSE Len(w)) |-> [k \in 1..Cols(x) |->
        QMul(QInt(w[IF Len(w) = 1 THEN 1 ELSE i]), x[IF Len(x) = 1 THEN 1 ELSE i][k])]]

\* v2e_update(X, e_weight) with e_weight given, a tensor located with X
v2e_updateGiven(hg, rg, x, e_weight) ==
    IF Len(e_weight) # num_e(rg) \/ ~CanBroadcast(e_weight, x) THEN FailX(hg)
    ELSE OkX(hg, BroadcastMul(e_weight, x))

v2e_update(hg, rg, dev, x, e_weight) ==
    IF e_weight.given THEN v2e_updateGiven(Relocate(hg, rg, dev), rg, x, e_weight.w)
    ELSE v2e_updateFrom(W_e(Relocate(hg, rg, dev), rg), rg, dev, x)

v2eFrom(r, rg, dev, e_weight) ==
    IF r.ok THEN v2e_update(r.hg, rg, dev, r.x, e_weight) ELSE r

v2e(hg, rg, X, aggr, v2e_weight, e_weight, drop_rate, keep_mask) ==
    v2eFrom(v2e_aggregation(hg, rg, X, aggr, v2e_weight, drop_rate, keep_mask), rg, X.dev,
            e_weight)

\* fault injection: e2v "mean" that divides by a degree of 0
e2v_aggregationMeanInf(r, x, dev) ==
    IF ~r.ok THEN FailX(r.hg)
    ELSE IF ~CanDiagMm(r.hg.cache["D_v_neg_1"], x, dev) THEN FailX(r.hg)
    ELSE OkX(r.hg, [i \in 1..Len(x) |-> [k \in 1..Cols(x) |->
                      IF r.hg.cache["D_v_neg_1"].val[i] = <<0, 1>> THEN <<1, 0>>
                      ELSE QMul(r.hg.cache["D_v_neg_1"].val[i], x[i][k])]])

\* e2v_aggregation, e2v_weight None, aggr "mean": r is the outcome of reading
\* self.D_v_neg_1, x the rows of torch.sparse.mm(P, X)
e2v_aggregationMean(r, x, dev) ==
    IF ~r.ok THEN FailX(r.hg)
    ELSE IF ~CanDiagMm(r.hg.cache["D_v_neg_1"], x, dev) THEN FailX(r.hg)
    ELSE OkX(r.hg, DiagMm(r.hg.cache["D_v_neg_1"].val, x))

e2v_aggregationPlain(hg, rg, d, X, aggr) ==
    IF ~d.ok \/ ~CanMm(d.val, X) THEN FailX(hg)
    ELSE IF aggr = "mean"
         THEN e2v_aggregationMean(D_v_neg_1(hg, rg), SparseMm(d.val, X.val), X.dev)
    ELSE IF aggr = "sum" THEN OkX(hg, SparseMm(d.val, X.val))
    ELSE OkX(hg, SoftmaxThenSum(d.val, X.val))

e2v_aggregationWeighted(hg, d, X, aggr) ==
    IF ~d.ok \/ ~CanMm(d.val, X) THEN FailX(hg)
    ELSE IF aggr = "mean"
         THEN OkX(hg, DiagMm(RowSumsOf(d.val), SparseMm(d.val, X.val)))
    ELSE IF aggr = "sum" THEN OkX(hg, SparseMm(d.val, X.val))
    ELSE OkX(hg, SoftmaxThenSum(d.val, X.val))

\* e2v_aggregation after self.H was read with outcome r
e2v_aggregationFrom(r, rg, X, aggr, e2v_weight, drop_rate, keep_mask) ==
    IF ~r.ok THEN FailX(r.hg)
    ELSE IF ~e2v_weight.given
         THEN e2v_aggregationPlain(r.hg, rg,
                  Dropped(Sparse(r.hg.cache["H"]), drop_rate, keep_mask), X, aggr)
    ELSE IF Len(e2v_weight.w) # Cardinality(Indices(r.hg.cache["H"].val))
         THEN FailX(r.hg)
    ELSE e2v_aggregationWeighted(r.hg,
             Dropped(WithValues(Sparse(r.hg.cache["H"]), e2v_weight.w, r.hg.device),
                     drop_rate, keep_mask), X, aggr)

e2v_aggregation(hg, rg, X, aggr, e2v_weight, drop_rate, keep_mask) ==
    IF aggr \notin {"mean", "sum", "softmax_then_sum"} THEN FailX(hg)
    ELSE e2v_aggregationFrom(H(Relocate(hg, rg, X.dev), rg), rg, X, aggr,
                             e2v_weight, drop_rate, keep_mask)

e2v_update(hg, rg, dev, x) == OkX(Relocate(hg, rg, dev), x)

e2vFrom(r, rg, dev) == IF r.ok THEN e2v_update(r.hg, rg, dev, r.x) ELSE r

e2v(hg, rg, X, aggr, e2v_weight, drop_rate, keep_mask) ==
    e2vFrom(e2v_aggregation(hg, rg, X, aggr, e2v_weight, drop_rate, keep_mask), rg, X.dev)

v2vFrom(r, rg, dev, aggr, e2v_weight, drop_rate, keep_mask) ==
    IF r.ok
    THEN e2v(r.hg, rg, [dev |-> dev, val |-> r.x], aggr, e2v_weight, drop_rate, keep_mask)
    ELSE r

\* an optional aggr or drop_rate of v2v, None when not given
NoAggr == [given |-> FALSE, a |-> ""]
NoRate == [given |-> FALSE, p |-> <<0, 1>>]

\* fault injection: v2v that takes a per-stage drop rate of 0.0 for None
v2v_falsy_rate(hg, rg, X, aggr, drop_rate, v2e_aggr, v2e_weight, v2e_drop_rate, e_weight, e2v_aggr, e2v_weight, e2v_drop_rate, keep_v2e, keep_e2v) ==
    v2vFrom(v2e(hg, rg, X, IF v2e_aggr.given THEN v2e_aggr.a ELSE aggr, v2e_weight, e_weight,
                IF v2e_drop_rate.given /\ v2e_drop_rate.p # <<0, 1>> THEN v2e_drop_rate.p
                ELSE drop_rate,
                keep_v2e),
            rg, X.dev, IF e2v_aggr.given THEN e2v_aggr.a ELSE aggr, e2v_weight,
            IF e2v_drop_rate.given /\ e2v_drop_rate.p # <<0, 1>> THEN e2v_drop_rate.p
            ELSE drop_rate,
            keep_e2v)

\* v2v(X, aggr, drop_rate, v2e_aggr, v2e_weight, v2e_drop_rate, e_weight,
\* e2v_aggr, e2v_weight, e2v_drop_rate): keep_v2e and keep_e2v are the
\* outcomes of the two dropouts
v2v(hg, rg, X, aggr, drop_rate, v2e_aggr, v2e_weight, v2e_drop_rate, e_weight, e2v_aggr, e2v_weight, e2v_drop_rate, keep_v2e, keep_e2v) ==
    v2vFrom(v2e(hg, rg, X, IF v2e_aggr.given THEN v2e_aggr.a ELSE aggr, v2e_weight, e_weight,
                IF v2e_drop_rate.given THEN v2e_drop_rate.p ELSE drop_rate, keep_v2e),
            rg, X.dev, IF e2v_aggr.given THEN e2v_aggr.a ELSE aggr, e2v_weight,
            IF e2v_drop_rate.given THEN e2v_drop_rate.p ELSE drop_rate, keep_e2v)

\* the connections <<vertex, hyperedge>> of the raw groups, indexed as in H
RECURSIVE AllEdges(_)
AllEdges(rg) == IF rg = << >> THEN << >> ELSE Head(rg).edges \o AllEdges(Tail(rg))
Connections(rg) ==
    UNION {{<<AllEdges(rg)[e].code[1][k] + 1, e>> : k \in 1..Len(AllEdges(rg)[e].code[1])} :
           e \in 1..Len(AllEdges(rg))}
Flip(ps) == {<<p[2], p[1]>> : p \in ps}

MessagePassingKinds == {"v2e_aggregation", "v2e", "e2v_aggregation", "e2v", "v2v"}

\* keep is the set of connections the dropout keeps; v2v is called with its
\* optional arguments omitted
MessagePassing(kind, hg, rg, X, aggr, weight, drop_rate, keep) ==
    CASE kind = "v2e_aggregation" ->
           v2e_aggregation(hg, rg, X, aggr, weight, DropRateOf(drop_rate), Flip(keep))
      [] kind = "v2e" ->
           v2e(hg, rg, X, aggr, weight, NoEWeight, DropRateOf(drop_rate), Flip(keep))
      [] kind = "e2v_aggregation" ->
           e2v_aggregation(hg, rg, X, aggr, weight, DropRateOf(drop_rate), keep)
      [] kind = "e2v" -> e2v(hg, rg, X, aggr, weight, DropRateOf(drop_rate), keep)
      [] OTHER -> v2v(hg, rg, X, aggr, DropRateOf(drop_rate), NoAggr, NoWeight, NoRate,
                      NoEWeight, NoAggr, NoWeight, NoRate, Flip(keep), keep)

\* a v2v call with per-stage arguments: o holds v2e_aggr, v2e_drop_rate,
\* e_weight, e2v_aggr and e2v_drop_rate, the connection weights are omitted
PassStaged(h, X, aggr, drop_rate, o, keep_v2e, keep_e2v) ==
    LET r == v2v(hgs[h], RawOf(h), X, aggr, DropRateOf(drop_rate), o.v2e_aggr, NoWeight,
                 o.v2e_drop_rate, o.e_weight, o.e2v_aggr, NoWeight, o.e2v_drop_rate,
                 Flip(keep_v2e), keep_e2v)
    IN /\ hgs' = [hgs EXCEPT ![h] = r.hg]
       /\ Returned("v2v(staged)", h, r.ok, <<X, aggr, drop_rate, o, keep_v2e, keep_e2v>>,
                   Before(h), r.x)
       /\ UNCHANGED <<stores, sd, file>>

Aggregate(h, kind, X, aggr, weight, drop_rate, keep) ==
    LET r == MessagePassing(kind, hgs[h], RawOf(h), X, aggr, weight, drop_rate, keep)
    IN /\ hgs' = [hgs EXCEPT ![h] = r.hg]
       /\ Returned(kind, h, r.ok, <<X, aggr, weight, drop_rate, keep>>, Before(h), r.x)
       /\ UNCHANGED <<stores, sd, file>>

\* a feature tensor of ones with one column and n rows
Ones(dev, n) == Tensor(dev, [i \in 1..n |-> <<1>>])
\* the number of rows the feature tensor of a call has to have
RowsFor(kind, hg, rg) ==
    IF kind \in {"e2v_aggregation", "e2v"} THEN num_e(rg) ELSE hg.num_v

-----------------------------------------------------------------------------
(* The specification: any bounded sequence of calls by one caller.         *)

ConstructInputs ==
    {<<n, e, vw>> : n \in NumVs \cup {0},
                    e \in {<< >>} \cup {<<l>> : l \in {x \in EListInputs : Len(x) <= 1}},
                    vw \in UNION {VWeightInputs(k) : k \in NumVs}}

\* the states after the first constructor call that returned an object
Init ==
    /\ \E c \in ConstructInputs :
         /\ Hypergraph(c[1], c[2], c[3], 1).ok
         /\ hgs = <<Hypergraph(c[1], c[2], c[3], 1).hg>>
         /\ stores = <<Hypergraph(c[1], c[2], c[3], 1).rg>>
         /\ last = [op |-> "Hypergraph", h |-> 1, ok |-> TRUE, args |-> c,
                    before |-> NoBefore]
    /\ sd = << >>
    /\ file = << >>
    /\ out = << >>
    /\ steps = 0
    /\ threads = << >>

Next ==
    \/ steps < MaxSteps /\ \E c \in ConstructInputs : Construct(c[1], c[2], c[3])
    \/ steps < MaxSteps
         /\ \E h \in Objects : \E l \in EListInputs : \E w \in EWeightInputs(Len(l)) :
              \E op \in MergeOps : \E g \in GroupNames : add_hyperedges(h, l, w, op, g)
    \/ steps < MaxSteps
         /\ \E h \in Objects : \E l \in EListInputs : \E g \in GroupArgs :
              remove_hyperedges(h, l, l, g)
    \/ steps < MaxSteps
         /\ \E h \in Objects : \E l \in EListInputs \ {<< >>} : \E g \in GroupArgs :
              remove_hyperedges(h, l, Tail(l), g)
    \/ steps < MaxSteps /\ \E h \in Objects : clear(h)
    \/ steps < MaxSteps /\ \E h \in Objects : clone(h)
    \/ steps < MaxSteps /\ \E h \in Objects : state_dict(h)
    \/ steps < MaxSteps /\ from_state_dict
    \/ steps < MaxSteps /\ \E h \in Objects : save(h)
    \/ steps < MaxSteps /\ load
    \/ steps < MaxSteps /\ \E h \in Objects : \E name \in MatrixNames : Read(h, name)
    \/ steps < MaxSteps
         /\ \E h \in Objects : \E name \in GroupMatrixNames : \E g \in GroupNames :
              Read_of_group(h, name, g)
    \/ steps < MaxSteps /\ \E h \in Objects : \E d \in Devices : MoveTo(h, d)
    \/ steps < MaxSteps
         /\ \E h \in Objects : \E k \in NumVs : v_weight_setter(h, [i \in 1..k |-> 3])
    \/ steps < MaxSteps
         /\ \E h \in Objects : \E k \in {"v2e", "e2v", "v2v"} : \E d \in Devices :
              \E a \in AggrInputs :
                  Aggregate(h, k, Ones(d, RowsFor(k, hgs[h], RawOf(h))), a,
                            NoWeight, NoDropRate, {})

Spec == Init /\ [][Next]_vars

-----------------------------------------------------------------------------
(* The message-passing specification: a hypergraph on four vertices is      *)
(* extended, its degree matrices are read and features are passed over it,  *)
(* with and without connection weights and dropout.                         *)

\* BaseHypergraph.v, which Hypergraph.v returns: the list of vertices, kept
\* in self.cache["v"] once it was built
v_getter(hg) ==
    IF InC(hg, "v") THEN OkX(hg, hg.cache["v"].val)
    ELSE OkX(SetC(hg, "v", [val |-> [i \in 1..hg.num_v |-> i - 1]]),
             [i \in 1..hg.num_v |-> i - 1])

\* num_e_of_group: asserts that the group exists
num_e_of_group(hg, rg, group_name) ==
    IF ~HasGroup(rg, group_name) THEN FailX(hg)
    ELSE OkX(hg, Len(EdgesOf(rg, group_name)))

QueryNames == {"num_e", "num_e_of_group", "group_names", "v", "v_weight"}

\* the outcome of a query operation: the object after it and what it returns
Answer(name, hg, rg, group_name) ==
    CASE name = "num_e" -> OkX(hg, num_e(rg))
      [] name = "num_e_of_group" -> num_e_of_group(hg, rg, group_name)
      [] name = "group_names" -> OkX(hg, group_names(rg))
      [] name = "v" -> v_getter(hg)
      [] OTHER -> OkX(hg, hg.v_weight)

\* a query operation; group_name is read by num_e_of_group only
Query(h, name, group_name) ==
    LET r == Answer(name, hgs[h], RawOf(h), group_name)
    IN /\ hgs' = [hgs EXCEPT ![h] = r.hg]
       /\ Returned("query", h, r.ok, <<name, group_name>>, Before(h), r.x)
       /\ UNCHANGED <<stores, sd, file>>

\* Hypergraph(4) and Hypergraph(4, [[0, 1, 2]])
MPConstructInputs == {<<4, << >>, NoVWeight>>, <<4, <<<<<<0, 1, 2>>>>>>, NoVWeight>>}
MPEListInputs == {<<<<1, 2, 3>>>>, <<<<1, 0>>>>}
MPEWeightInputs == {NoEWeight, [given |-> TRUE, w |-> <<2>>]}
\* feature tensors with 4, 2 and 1 rows
ScenarioX == <<<<1, 0>>, <<0, 1>>, <<1, 1>>, <<2, 0>>>>
FeatureInputs ==
    {Tensor("cpu", ScenarioX), Tensor("cpu", <<<<1>>, <<2>>>>), Tensor("cpu", <<<<3>>>>)}
\* connection weights: omitted, 1.0 2.0 ... one per connection, or one too many
WeightInputs(n) ==
    {NoWeight} \cup {[given |-> TRUE, w |-> [i \in 1..k |-> i]] : k \in {n, n + 1}}
\* drop_rate: omitted, 0.0, 1.0; and 0.5
DropRateInputs ==
    {NoDropRate, [given |-> TRUE, p |-> <<0, 1>>], [given |-> TRUE, p |-> <<1, 1>>]}
HalfDropRate == [given |-> TRUE, p |-> <<1, 2>>]
\* the features of the v2v calls with per-stage arguments
StagedX == <<<<1>>, <<0>>, <<1>>, <<2>>>>
\* per-stage arguments of v2v: each of v2e_aggr, e2v_aggr, v2e_drop_rate,
\* e2v_drop_rate omitted or given (a rate of 0.0 or 1.0), e_weight omitted or
\* 2.0 for every hyperedge
StageRates == {NoRate, [given |-> TRUE, p |-> <<0, 1>>], [given |-> TRUE, p |-> <<1, 1>>]}
StageInputs(n) ==
    [v2e_aggr : {NoAggr, [given |-> TRUE, a |-> "mean"]},
     v2e_drop_rate : StageRates,
     e_weight : {NoEWeight, [given |-> TRUE, w |-> [i \in 1..n |-> 2]]},
     e2v_aggr : {NoAggr, [given |-> TRUE, a |-> "mean"]},
     e2v_drop_rate : StageRates]

InitMP ==
    /\ \E c \in MPConstructInputs :
         /\ Hypergraph(c[1], c[2], c[3], 1).ok
         /\ hgs = <<Hypergraph(c[1], c[2], c[3], 1).hg>>
         /\ stores = <<Hypergraph(c[1], c[2], c[3], 1).rg>>
         /\ last = [op |-> "Hypergraph", h |-> 1, ok |-> TRUE, args |-> c,
                    before |-> NoBefore]
    /\ sd = << >>
    /\ file = << >>
    /\ out = << >>
    /\ steps = 0
    /\ threads = << >>

NextMP ==
    \/ steps < MaxSteps
         /\ \E h \in Objects : \E l \in MPEListInputs : \E w \in MPEWeightInputs :
              \E g \in GroupNames : add_hyperedges(h, l, w, "mean", g)
    \/ steps < MaxSteps /\ \E h \in Objects : \E name \in {"D_e", "D_v"} : Read(h, name)
    \/ steps < MaxSteps
         /\ \E h \in Objects : \E name \in {"D_e", "D_v"} : \E g \in GroupNames :
              Read_of_group(h, name, g)
    \/ steps < MaxSteps
         /\ \E h \in Objects : \E k \in MessagePassingKinds : \E X \in FeatureInputs :
              \E a \in AggrInputs :
              \E w \in WeightInputs(Cardinality(Connections(RawOf(h)))) :
              \E dr \in DropRateInputs :
              \E keep \in Bernoulli(DropRateOf(dr), Connections(RawOf(h))) :
                  Aggregate(h, k, X, a, IF k = "v2v" THEN NoWeight ELSE w, dr, keep)
    \/ steps < MaxSteps
         /\ \E h \in Objects : \E k \in MessagePassingKinds \ {"v2v"} :
              \E X \in FeatureInputs : \E a \in {"mean", "sum"} :
              \E w \in WeightInputs(Cardinality(Connections(RawOf(h)))) :
              \E keep \in Bernoulli(HalfDropRate.p, Connections(RawOf(h))) :
                  Aggregate(h, k, X, a, w, HalfDropRate, keep)
    \/ steps < MaxSteps
         /\ \E h \in Objects : \E a \in {"sum"} :
              \E dr \in {NoDropRate, [given |-> TRUE, p |-> <<1, 1>>]} :
              \E o \in StageInputs(num_e(RawOf(h))) :
              \E k1 \in Bernoulli(IF o.v2e_drop_rate.given THEN o.v2e_drop_rate.p
                                   ELSE DropRateOf(dr), Connections(RawOf(h))) :
              \E k2 \in Bernoulli(IF o.e2v_drop_rate.given THEN o.e2v_drop_rate.p
                                   ELSE DropRateOf(dr), Connections(RawOf(h))) :
                  PassStaged(h, Tensor("cpu", StagedX), a, dr, o, k1, k2)
    \/ steps < MaxSteps
         /\ \E h \in Objects : \E name \in QueryNames : \E g \in GroupNames :
              Query(h, name, IF name = "num_e_of_group" THEN g ELSE "")

SpecMP == InitMP /\ [][NextMP]_vars

-----------------------------------------------------------------------------
(* Threads.  Several threads call getters and aggregations on hypergraph 1  *)
(* while no mutator runs.  A thread is [call, X, stack, wrote, done,        *)
(* result]; a frame of its stack, [name, g, pc, vals], is a getter (of      *)
(* group g, structure-wide when g = "") or the aggregation, its position,   *)
(* and the values its nested getter calls have returned so far.  One step   *)
(* is one access of self.cache / self.group_cache: a lookup, a store or the *)
(* read of a return statement; what a thread computes in between uses only  *)
(* what its own reads returned.  The hypergraphs have no index out of range *)
(* and the features are located with them, so that no call raises.          *)

MaxThreads == 2

Matrix(name, g) == [name |-> name, g |-> g]
PerGroup(name, rg) == [i \in 1..Len(rg) |-> Matrix(name, rg[i].name)]

\* the getters a getter, or an aggregation with aggr "mean" and no
\* connection weights, calls, in the order it calls them
Reads(name, g, rg) ==
    IF g # ""
    THEN CASE name = "H" -> <<Matrix("H_v2e", g)>>
           [] name = "H_T" -> <<Matrix("H", g)>>
           [] name = "D_v" -> <<Matrix("H", g), Matrix("W_e", g)>>
           [] name = "D_e" -> <<Matrix("H_T", g)>>
           [] OTHER -> << >>
    ELSE CASE name = "H_v2e" -> PerGroup("H_v2e", rg)
           [] name = "H" -> <<Matrix("H_v2e", "")>>
           [] name = "H_T" -> <<Matrix("H", "")>>
           [] name = "W_e" -> PerGroup("W_e", rg)
           [] name = "D_v" -> PerGroup("D_v", rg)
           [] name = "D_e" -> PerGroup("D_e", rg)
           [] name = "D_v_neg_1" -> <<Matrix("D_v", "")>>
           [] name = "D_e_neg_1" -> <<Matrix("D_e", "")>>
           [] name = "v2e_aggregation" -> <<Matrix("H_T", ""), Matrix("D_e_neg_1", "")>>
           [] name = "v2e" ->
                <<Matrix("H_T", ""), Matrix("D_e_neg_1", ""), Matrix("W_e", "")>>
           [] name \in {"e2v_aggregation", "e2v"} ->
                <<Matrix("H", ""), Matrix("D_v_neg_1", "")>>
           [] OTHER ->
                <<Matrix("H_T", ""), Matrix("D_e_neg_1", ""), Matrix("W_e", ""),
                  Matrix("H", ""), Matrix("D_v_neg_1", "")>>

Cached(hg, m) == IF m.g = "" THEN InC(hg, m.name) ELSE InG(hg, m.g, m.name)
Lookup(hg, m) == IF m.g = "" THEN hg.cache[m.name] ELSE GC(hg, m.g)[m.name]
Stored(hg, m, e) == IF m.g = "" THEN SetC(hg, m.name, e) ELSE SetG(hg, m.g, m.name, e)

\* the hypergraph as a frame sees it: no cache entry but what its reads returned
RECURSIVE Overlay(_, _, _)
Overlay(hg, ms, vals) ==
    IF ms = << >> THEN hg
    ELSE Overlay(Stored(hg, Head(ms), Head(vals)), Tail(ms), Tail(vals))
View(hg, f, rg) ==
    Overlay([hg EXCEPT !.cache = EmptyDict, !.group_cache = EmptyDict],
            Reads(f.name, f.g, rg), f.vals)

\* the value a getter computes from what its reads returned
Computed(hg, f, rg) ==
    IF f.g = "" THEN ReadGlobal(f.name, View(hg, f, rg), rg).hg.cache[f.name]
    ELSE GC(ReadOfGroup(f.name, View(hg, f, rg), rg, f.g).hg, f.g)[f.name]

\* fault injection: a lookup that never finds the entry
HitNever(hg, m) == FALSE
\* "if self.cache.get(name) is None" is false: the entry is there
Hit(hg, m) == Cached(hg, m)
\* fault injection: a getter that reserves the entry it is about to compute
OnMissReserve(hg, m) == Stored(hg, m, Entry(<< >>, hg.device))
\* the getter leaves the cache as it is until its value is computed
OnMiss(hg, m) == hg

Frame(m, pc) == [name |-> m.name, g |-> m.g, pc |-> pc, vals |-> << >>]
Top(t) == threads[t].stack[Len(threads[t].stack)]
Running(t, pc) == ~threads[t].done /\ Top(t).pc = pc
Gathered(t) == Len(Top(t).vals) = Len(Reads(Top(t).name, Top(t).g, RawOf(1)))
WithTop(t, f) == [threads EXCEPT ![t].stack[Len(threads[t].stack)] = f]

\* the lookup of a getter; group_cache[g] is created by the lookup
Check(t) ==
    /\ Running(t, "check")
    /\ hgs' = [hgs EXCEPT ![1] =
                 IF Hit(hgs[1], Top(t)) THEN hgs[1]
                 ELSE OnMiss(IF Top(t).g = "" THEN hgs[1] ELSE Touch(hgs[1], Top(t).g),
                             Top(t))]
    /\ threads' = WithTop(t, [Top(t) EXCEPT !.pc = IF Hit(hgs[1], Top(t)) THEN "return"
                                                   ELSE "compute"])
    /\ UNCHANGED <<stores, sd, file, last, out, steps>>

\* the next nested getter call
Call(t) ==
    /\ Running(t, "compute")
    /\ ~Gathered(t)
    /\ threads' = [threads EXCEPT ![t].stack =
                     Append(@, Frame(Reads(Top(t).name, Top(t).g,
                                           RawOf(1))[Len(Top(t).vals) + 1], "check"))]
    /\ UNCHANGED <<hgs, stores, sd, file, last, out, steps>>

\* "self.cache[name] = value"
Store(t) ==
    /\ Running(t, "compute")
    /\ Gathered(t)
    /\ Top(t).name \notin MessagePassingKinds
    /\ hgs' = [hgs EXCEPT ![1] = Stored(@, Top(t), Computed(@, Top(t), RawOf(1)))]
    /\ threads' = [WithTop(t, [Top(t) EXCEPT !.pc = "return"]) EXCEPT ![t].wrote = TRUE]
    /\ UNCHANGED <<stores, sd, file, last, out, steps>>

\* "return self.cache[name]", to the calling getter or to the caller
Return(t) ==
    /\ Running(t, "return")
    /\ threads' =
         IF Len(threads[t].stack) = 1
         THEN [threads EXCEPT ![t].stack = << >>, ![t].done = TRUE,
                              ![t].result = Lookup(hgs[1], Top(t))]
         ELSE [threads EXCEPT ![t].stack =
                 [SubSeq(@, 1, Len(@) - 1) EXCEPT ![Len(@) - 1].vals =
                     Append(@, Lookup(hgs[1], Top(t)))]]
    /\ UNCHANGED <<hgs, stores, sd, file, last, out, steps>>

\* the aggregation multiplies the matrices its reads returned
Aggregated(t) ==
    /\ Running(t, "compute")
    /\ Gathered(t)
    /\ Top(t).name \in MessagePassingKinds
    /\ threads' = [threads EXCEPT ![t].stack = << >>, ![t].done = TRUE,
                                  ![t].result =
                     MessagePassing(Top(t).name, View(hgs[1], Top(t), RawOf(1)), RawOf(1),
                                    threads[t].X, "mean", NoWeight, NoDropRate, {}).x]
    /\ UNCHANGED <<hgs, stores, sd, file, last, out, steps>>

\* a hypergraph on 4 vertices with one group, and with two
ThreadStores ==
    {AddRaw(<< >>, <<<<0, 1, 2>>>>, NoEWeight, "mean", "main").rg,
     AddRaw(AddRaw(<< >>, <<<<0, 1, 2>>>>, NoEWeight, "mean", "main").rg,
            <<<<1, 2, 3>>>>, [given |-> TRUE, w |-> <<2>>], "mean", "aux").rg}
\* the caches the threads find: empty, filled by a read of H, or filled by a
\* v2v call
ThreadCaches(hg, rg) ==
    {hg, H(hg, rg).hg,
     MessagePassing("v2v", hg, rg, Tensor("cpu", ScenarioX), "mean", NoWeight, NoDropRate,
                    {}).hg}
ThreadCalls == {"H", "D_e", "D_v", "v2e_aggregation", "e2v"}
ThreadFeatures(call, rg) ==
    IF call \in {"e2v_aggregation", "e2v"}
    THEN Tensor("cpu", [i \in 1..num_e(rg) |-> <<i, 1>>])
    ELSE Tensor("cpu", ScenarioX)
Thread(call, rg) ==
    [call |-> call, X |-> ThreadFeatures(call, rg),
     stack |-> <<Frame(Matrix(call, ""),
                       IF call \in MessagePassingKinds THEN "compute" ELSE "check")>>,
     wrote |-> FALSE, done |-> FALSE, result |-> << >>]

InitMT ==
    /\ \E rg \in ThreadStores :
         \E hg \in ThreadCaches(Hypergraph(4, << >>, NoVWeight, 1).hg, rg) :
           /\ hgs = <<hg>>
           /\ stores = <<rg>>
           /\ last = [op |-> "threads", h |-> 1, ok |-> TRUE, args |-> << >>,
                      before |-> [hg |-> hg, rg |-> rg]]
           /\ \E calls \in [1..MaxThreads -> ThreadCalls] :
                threads = [t \in 1..MaxThreads |-> Thread(calls[t], rg)]
    /\ sd = << >>
    /\ file = << >>
    /\ out = << >>
    /\ steps = 0

NextMT ==
    \/ \E t \in 1..MaxThreads : Check(t)
    \/ \E t \in 1..MaxThreads : Call(t)
    \/ \E t \in 1..MaxThreads : Store(t)
    \/ \E t \in 1..MaxThreads : Return(t)
    \/ \E t \in 1..MaxThreads : Aggregated(t)

SpecMT == InitMT /\ [][NextMT]_vars

-----------------------------------------------------------------------------
(* BaseHypergraph.add_hyperedges: directional hyperedges with weights on    *)
(* their connections, added to a BaseHypergraph(4).  The members of a       *)
(* hyperedge are distinct here, so that np.argsort has one outcome.         *)

\* np.argsort(cur_e) for distinct members: the index of the k-th smallest
ArgSort(e) ==
    [k \in 1..Len(e) |->
        CHOOSE i \in 1..Len(e) : Cardinality({j \in 1..Len(e) : e[j] < e[i]}) = k - 1]

\* _format_e_list_and_w_on_them for a List[List[int]]: w_list None gives the
\* weight 1 to every connection; every hyperedge and its weights are sorted
\* by vertex index.  e_list[0] of an empty list raises IndexError.
_format_e_list_and_w_on_them(e_list, w_list) ==
    LET ws == IF w_list.given THEN w_list.w
              ELSE [i \in 1..Len(e_list) |-> [k \in 1..Len(e_list[i]) |-> 1]]
    IN IF Len(e_list) = 0 \/ Len(e_list) # Len(ws)
          \/ \E i \in 1..Len(e_list) : Len(e_list[i]) # Len(ws[i])
       THEN [ok |-> FALSE, es |-> << >>, ws |-> << >>]
       ELSE [ok |-> TRUE,
             es |-> [i \in 1..Len(e_list) |->
                       [k \in 1..Len(e_list[i]) |-> e_list[i][ArgSort(e_list[i])[k]]]],
             ws |-> [i \in 1..Len(e_list) |->
                       [k \in 1..Len(e_list[i]) |-> QInt(ws[i][ArgSort(e_list[i])[k]])]]]

\* the for loop of BaseHypergraph.add_hyperedges
RECURSIVE BaseAddLoop(_, _, _, _, _, _, _)
BaseAddLoop(rg, f_v2e, f_e2v, e_weight, merge_op, group_name, idx) ==
    IF idx > Len(f_v2e.es) THEN [ok |-> TRUE, rg |-> rg]
    ELSE LET r == _add_hyperedge(rg, _hyperedge_code(f_v2e.es[idx], f_e2v.es[idx]),
                                 [w_v2e |-> [list |-> f_v2e.ws[idx]],
                                  w_e2v |-> [list |-> f_e2v.ws[idx]],
                                  w_e |-> QInt(e_weight[idx])],
                                 merge_op, group_name)
         IN IF r.ok
            THEN BaseAddLoop(r.rg, f_v2e, f_e2v, e_weight, merge_op, group_name, idx + 1)
            ELSE [ok |-> FALSE, rg |-> r.rg]

\* BaseHypergraph.add_hyperedges after the two lists were formatted
BaseAddFormatted(rg, f_v2e, f_e2v, e_weight, merge_op, group_name) ==
    IF ~f_v2e.ok \/ ~f_e2v.ok THEN [ok |-> FALSE, rg |-> rg]
    ELSE IF Len(f_v2e.es) # Len(IF e_weight.given THEN e_weight.w
                              ELSE [i \in 1..Len(f_v2e.es) |-> 1])
            \/ Len(f_v2e.es) # Len(f_e2v.es)
         THEN [ok |-> FALSE, rg |-> rg]
    ELSE BaseAddLoop(rg, f_v2e, f_e2v,
                     IF e_weight.given THEN e_weight.w ELSE [i \in 1..Len(f_v2e.es) |-> 1],
                     merge_op, group_name, 1)

\* a is <<e_list_v2e, e_list_e2v, w_list_v2e, w_list_e2v, e_weight, merge_op,
\* group_name>>
BaseHypergraph_add_hyperedges(h, a) ==
    /\ hgs' = [hgs EXCEPT ![h] =
                 IF BaseAddFormatted(RawOf(h), _format_e_list_and_w_on_them(a[1], a[3]),
                                     _format_e_list_and_w_on_them(a[2], a[4]),
                                     a[5], a[6], a[7]).ok
                 THEN _clear_cache(@, Some(a[7])) ELSE @]
    /\ stores' = [stores EXCEPT ![hgs[h].raw] =
                    BaseAddFormatted(RawOf(h), _format_e_list_and_w_on_them(a[1], a[3]),
                                     _format_e_list_and_w_on_them(a[2], a[4]),
                                     a[5], a[6], a[7]).rg]
    /\ Called("BaseHypergraph.add_hyperedges", h,
              BaseAddFormatted(RawOf(h), _format_e_list_and_w_on_them(a[1], a[3]),
                               _format_e_list_and_w_on_them(a[2], a[4]),
                               a[5], a[6], a[7]).ok,
              a, Before(h))
    /\ UNCHANGED <<sd, file>>

\* BaseHypergraph(num_v): clear() leaves no v_weight, no hyperedge, no cache
BaseHypergraph(num_v) ==
    [num_v |-> num_v, v_weight |-> << >>, raw |-> 1, cache |-> EmptyDict,
     group_cache |-> EmptyDict, device |-> "cpu"]

NoWList == [given |-> FALSE, w |-> << >>]
\* one or two directional hyperedges, in the order the caller lists them
DirectionalInputs ==
    {<<<<<<0, 1>>>>, <<<<2>>>>>>, <<<<<<1, 0>>>>, <<<<2>>>>>>, <<<<<<1, 0>>>>, <<<<3, 2>>>>>>,
     <<<<<<0, 1>>, <<1, 0>>>>, <<<<2>>, <<2>>>>>>}
\* weights on the connections: omitted, or distinct weights of the shape of
\* the list (counted from first)
WListInputs(e_list, first) ==
    {NoWList,
     [given |-> TRUE,
      w |-> [i \in 1..Len(e_list) |-> [k \in 1..Len(e_list[i]) |-> first + 2 * i + k]]]}

InitBase ==
    /\ hgs = <<BaseHypergraph(4)>>
    /\ stores = <<<< >>>>
    /\ last = [op |-> "BaseHypergraph", h |-> 1, ok |-> TRUE, args |-> <<4>>,
               before |-> NoBefore]
    /\ sd = << >>
    /\ file = << >>
    /\ out = << >>
    /\ steps = 0
    /\ threads = << >>

NextBase ==
    \/ steps < MaxSteps
         /\ \E e \in DirectionalInputs : \E op \in MergeOps : \E g \in GroupNames :
              BaseHypergraph_add_hyperedges(1, <<e[1], e[2], NoWList, NoWList, NoEWeight, op, g>>)
    \/ steps < MaxSteps
         /\ \E e \in DirectionalInputs : \E first \in {0, 4} :
              \E w1 \in WListInputs(e[1], first) : \E w2 \in WListInputs(e[2], first + 1) :
              \E ew \in {NoEWeight, [given |-> TRUE, w |-> [i \in 1..Len(e[1]) |-> 2]]} :
              \E op \in MergeOps :
                  BaseHypergraph_add_hyperedges(1, <<e[1], e[2], w1, w2, ew, op, "main">>)

SpecBase == InitBase /\ [][NextBase]_vars

-----------------------------------------------------------------------------
(* Properties.  last.before is the object and its raw groups as the latest *)
(* call found them; hgs[last.h] and RawOf(last.h) are what it left.        *)

Mutators == {"add_hyperedges", "remove_hyperedges"}
\* the group a mutating call names
TargetGroup == IF last.op = "add_hyperedges" THEN last.args[4] ELSE last.args[3].g
\* the weights an add_hyperedges call passes on, one per hyperedge
GivenWeights ==
    IF last.args[2].given THEN last.args[2].w ELSE [i \in 1..Len(last.args[1]) |-> 1]
\* the hyperedge code the i-th listed hyperedge of a mutating call stands for
GivenCode(i) ==
    IF last.op = "add_hyperedges"
    THEN <<sorted(last.args[1][i]), sorted(last.args[1][i])>>
    ELSE <<sorted(last.args[1][i]), sorted(last.args[2][i])>>
GroupBefore(g) ==
    IF HasGroup(last.before.rg, g) THEN EdgesOf(last.before.rg, g) ELSE << >>
GroupAfter(g) ==
    IF HasGroup(RawOf(last.h), g) THEN EdgesOf(RawOf(last.h), g) ELSE << >>
Entries(cache) == DOMAIN cache
CountCode(edges, code) == Cardinality({i \in 1..Len(edges) : edges[i].code = code})

\* the object with both caches dropped: whatever is read from it is recomputed
Uncached(hg) == [hg EXCEPT !.cache = EmptyDict, !.group_cache = EmptyDict]

Coherent(hg, rg) ==
    /\ \A name \in Entries(hg.cache) :
         /\ ReadGlobal(name, Uncached(hg), rg).ok
         /\ ReadGlobal(name, Uncached(hg), rg).hg.cache[name].val = hg.cache[name].val
    /\ \A g \in Entries(hg.group_cache) : \A name \in Entries(hg.group_cache[g]) :
         /\ ReadOfGroup(name, Uncached(hg), rg, g).ok
         /\ GC(ReadOfGroup(name, Uncached(hg), rg, g).hg, g)[name].val
              = hg.group_cache[g][name].val

\* C1: in every reachable state, every entry of the structure-wide cache and
\* of every per-group cache of every hypergraph equals the value recomputed
\* from its current raw groups and v_weight.
C1_CacheCoherence == \A h \in Objects : Coherent(hgs[h], RawOf(h))

\* C2: when add_hyperedges or remove_hyperedges targeting group g returns,
\* the structure-wide cache is empty, group g has no per-group cache entries,
\* and every other group's cache entries are what they were before the call.
C2_InvalidationOnMutation ==
    (last.op \in Mutators /\ last.ok) =>
        /\ Entries(hgs[last.h].cache) = {}
        /\ Entries(GC(hgs[last.h], TargetGroup)) = {}
        /\ \A g \in (Entries(hgs[last.h].group_cache)
                     \cup Entries(last.before.hg.group_cache)) \ {TargetGroup} :
             GC(hgs[last.h], g) = GC(last.before.hg, g)

\* a mutation returned while the structure-wide cache and the cache of a
\* group it did not target were filled
C2_Witness ==
    /\ last.op \in Mutators /\ last.ok
    /\ Entries(last.before.hg.cache) # {}
    /\ \E g \in GroupNames \ {TargetGroup} : Entries(GC(last.before.hg, g)) # {}

\* C3: an add_hyperedges or remove_hyperedges call either applies every
\* hyperedge of its batch and invalidates the caches, or fails leaving the
\* raw groups and both caches exactly as before the call.
C3_MutationAtomicity ==
    /\ (last.op \in Mutators /\ last.ok) =>
           /\ Entries(hgs[last.h].cache) = {}
           /\ Entries(GC(hgs[last.h], TargetGroup)) = {}
           /\ \A i \in 1..Len(last.args[1]) :
                HasCode(GroupAfter(TargetGroup), GivenCode(i)) = (last.op = "add_hyperedges")
    /\ (last.op \in Mutators /\ ~last.ok) =>
           /\ RawOf(last.h) = last.before.rg
           /\ hgs[last.h].cache = last.before.hg.cache
           /\ hgs[last.h].group_cache = last.before.hg.group_cache

\* C4: adding a hyperedge code to a group that holds it with weight a, with
\* weight b, or adding it twice (weights a, b) in one batch to a group that
\* does not hold it, leaves one entry with w_e (a+b)/2 under "mean", a+b
\* under "sum" and max(a, b) under "max".
MergeLaw(op, a, b) ==
    CASE op = "mean" -> Q(a[1] * b[2] + b[1] * a[2], 2 * a[2] * b[2])
      [] op = "sum" -> Q(a[1] * b[2] + b[1] * a[2], a[2] * b[2])
      [] op = "max" -> IF a[1] * b[2] < b[1] * a[2] THEN b ELSE a

StoredWeight(edges, code) == edges[CodeIdx(edges, code)].w_e

TwoCalls ==
    /\ Len(last.args[1]) = 1
    /\ HasCode(GroupBefore(TargetGroup), GivenCode(1))

OneBatch ==
    /\ Len(last.args[1]) = 2
    /\ GivenCode(1) = GivenCode(2)
    /\ ~HasCode(GroupBefore(TargetGroup), GivenCode(1))

C4_MergeLaw ==
    (last.op = "add_hyperedges" /\ last.ok /\ last.args[3] \in {"mean", "sum", "max"}) =>
        /\ TwoCalls =>
             /\ CountCode(GroupAfter(TargetGroup), GivenCode(1)) = 1
             /\ StoredWeight(GroupAfter(TargetGroup), GivenCode(1))
                  = MergeLaw(last.args[3],
                             StoredWeight(GroupBefore(TargetGroup), GivenCode(1)),
                             QInt(GivenWeights[1]))
        /\ OneBatch =>
             /\ CountCode(GroupAfter(TargetGroup), GivenCode(1)) = 1
             /\ StoredWeight(GroupAfter(TargetGroup), GivenCode(1))
                  = MergeLaw(last.args[3], QInt(GivenWeights[1]), QInt(GivenWeights[2]))

\* a second call added a stored code under "mean" with a different weight
C4_Witness ==
    /\ last.op = "add_hyperedges" /\ last.ok /\ last.args[3] = "mean"
    /\ TwoCalls
    /\ StoredWeight(GroupBefore(TargetGroup), GivenCode(1)) # QInt(GivenWeights[1])

\* C5: within one group no two stored hyperedges have the same sorted member
\* tuple; adding hyperedges that are permutations of hyperedges the group
\* holds leaves the group's number of hyperedges unchanged; and an add to one
\* group leaves the hyperedges of every other group as they were.
MemberTuple(e) == sorted(e.code[1])

UniqueCodes(edges) ==
    \A i, j \in 1..Len(edges) : i # j => MemberTuple(edges[i]) # MemberTuple(edges[j])

AllHeld(edges) ==
    \A i \in 1..Len(last.args[1]) :
        \E j \in 1..Len(edges) : MemberTuple(edges[j]) = sorted(last.args[1][i])

C5_CodeUniqueness ==
    /\ \A k \in 1..Len(stores) : \A i \in 1..Len(stores[k]) : UniqueCodes(stores[k][i].edges)
    /\ (last.op = "add_hyperedges" /\ last.ok) =>
           /\ AllHeld(GroupBefore(TargetGroup)) =>
                Len(GroupAfter(TargetGroup)) = Len(GroupBefore(TargetGroup))
           /\ \A g \in GroupNames \ {TargetGroup} : GroupAfter(g) = GroupBefore(g)

\* a permutation of a held hyperedge was added to a group while another
\* group holds the same code
C5_Witness ==
    /\ last.op = "add_hyperedges" /\ last.ok
    /\ last.args[1] = <<<<1, 0>>>>
    /\ AllHeld(GroupBefore(TargetGroup))
    /\ \E g \in GroupNames \ {TargetGroup} : HasCode(GroupAfter(g), GivenCode(1))

\* C6: after add_hyperedges(edge_list) on a hypergraph with no hyperedges,
\* with an edge_list of pairwise distinct hyperedge codes, num_e is
\* len(edge_list).
DistinctCodes ==
    \A i, j \in 1..Len(last.args[1]) : i # j => GivenCode(i) # GivenCode(j)

C6_EdgeCountAfterAdd ==
    (last.op = "add_hyperedges" /\ last.ok /\ num_e(last.before.rg) = 0 /\ DistinctCodes)
        => num_e(RawOf(last.h)) = Len(last.args[1])

\* two different codes were added to a hypergraph without hyperedges
C6_Witness ==
    /\ last.op = "add_hyperedges" /\ last.ok
    /\ num_e(last.before.rg) = 0
    /\ DistinctCodes
    /\ Len(last.args[1]) = 2

\* C7: num_v is the value passed at construction and no operation on the
\* hypergraph changes it; clone yields a hypergraph with the same num_v, and
\* what save writes and load (state_dict and from_state_dict) reads back is
\* that num_v.
OnExisting ==
    {"add_hyperedges", "remove_hyperedges", "clear", "clone", "state_dict", "save",
     "read", "read_of_group", "to", "v2e", "e2v", "v2v"}

C7_NumVImmutable ==
    /\ (last.op = "Hypergraph" /\ last.ok) => hgs[last.h].num_v = last.args[1]
    /\ last.op \in OnExisting => hgs[last.h].num_v = last.before.hg.num_v
    /\ last.op = "clone" => hgs[Len(hgs)].num_v = last.before.hg.num_v
    /\ last.op = "state_dict" => sd[1].num_v = hgs[last.h].num_v
    /\ last.op = "from_state_dict" => hgs[last.h].num_v = sd[1].num_v
    /\ last.op = "save" => pickle_load(file[1]).state_dict.num_v = hgs[last.h].num_v
    /\ last.op = "load" => hgs[last.h].num_v = pickle_load(file[1]).state_dict.num_v

\* clear() was called on a hypergraph that held hyperedges
C7_Witness ==
    /\ last.op = "clear"
    /\ num_e(last.before.rg) > 0
    /\ hgs[last.h].num_v = last.before.hg.num_v

\* C8: what save writes reads back as the hypergraph's num_v and raw groups;
\* load (from_state_dict) yields a hypergraph with that num_v and those raw
\* groups (names, codes, order, weights) and with both caches empty; and no
\* two hypergraphs, nor the state dict and the hypergraph made from it, share
\* a raw-groups dict, so that mutating one leaves the other as it is.
Loaded(h, num_v, raw_groups) ==
    /\ hgs[h].num_v = num_v
    /\ RawOf(h) = raw_groups
    /\ Entries(hgs[h].cache) = {}
    /\ Entries(hgs[h].group_cache) = {}

C8_SaveLoadRoundTrip ==
    /\ last.op = "save" =>
           pickle_load(file[1]).state_dict
             = [num_v |-> hgs[last.h].num_v, raw_groups |-> RawOf(last.h)]
    /\ last.op = "load" =>
           Loaded(last.h, pickle_load(file[1]).state_dict.num_v,
                  pickle_load(file[1]).state_dict.raw_groups)
    /\ last.op = "state_dict" =>
           sd[1] = [num_v |-> hgs[last.h].num_v, raw |-> hgs[last.h].raw]
    /\ last.op = "from_state_dict" =>
           /\ Loaded(last.h, sd[1].num_v, stores[sd[1].raw])
           /\ hgs[last.h].raw # sd[1].raw
    /\ \A i, j \in Objects : i # j => hgs[i].raw # hgs[j].raw

\* a hypergraph with hyperedges was saved and loaded, the original still
\* being there
C8_Witness ==
    /\ last.op = "load"
    /\ num_e(RawOf(last.h)) > 0
    /\ \E k \in Objects \ {last.h} :
         /\ RawOf(k) = RawOf(last.h)
         /\ hgs[k].num_v = hgs[last.h].num_v

\* C9: remove_hyperedges called without a group returns and removes each
\* listed hyperedge code from every group that holds it.
C9_RemoveFromAllGroups ==
    (/\ last.op = "remove_hyperedges"
     /\ ~last.args[3].given
     /\ Len(last.args[1]) > 0
     /\ Len(last.args[1]) = Len(last.args[2])) =>
        /\ last.ok
        /\ \A g \in GroupNames : \A i \in 1..Len(last.args[1]) :
             ~HasCode(GroupAfter(g), GivenCode(i))

\* C10: remove_hyperedges on an existing group returns; the group keeps, in
\* order and with their weights, exactly the hyperedges whose codes the call
\* did not list (so a listed code the group does not hold changes nothing and
\* a listed code it holds is removed), the group names and the other groups
\* are unchanged, and the caches are cleared.
Listed == {GivenCode(i) : i \in 1..Len(last.args[1])}

RemoveOnExistingGroup ==
    /\ last.op = "remove_hyperedges"
    /\ last.args[3].given
    /\ HasGroup(last.before.rg, TargetGroup)
    /\ Len(last.args[1]) > 0
    /\ Len(last.args[1]) = Len(last.args[2])

C10_RemoveAbsentIsNoOp ==
    RemoveOnExistingGroup =>
        /\ last.ok
        /\ group_names(RawOf(last.h)) = group_names(last.before.rg)
        /\ GroupAfter(TargetGroup)
             = SelectSeq(GroupBefore(TargetGroup), LAMBDA e : e.code \notin Listed)
        /\ \A g \in GroupNames \ {TargetGroup} : GroupAfter(g) = GroupBefore(g)
        /\ Entries(hgs[last.h].cache) = {}
        /\ Entries(GC(hgs[last.h], TargetGroup)) = {}

\* a remove listed a code the group held and a code it did not hold, while
\* the caches were filled
C10_Witness ==
    /\ RemoveOnExistingGroup
    /\ \E c \in Listed : HasCode(GroupBefore(TargetGroup), c)
    /\ \E c \in Listed : ~HasCode(GroupBefore(TargetGroup), c)
    /\ Entries(last.before.hg.cache) # {}
    /\ Entries(GC(last.before.hg, TargetGroup)) # {}

\* C11: assigning to v_weight a list of length num_v returns, replaces the
\* stored weights and empties the structure-wide and all per-group caches;
\* assigning a list of another length fails and leaves the stored weights
\* and the caches as they were.
C11_VWeightSetter ==
    last.op = "v_weight.setter" =>
        IF Len(last.args[1]) = last.before.hg.num_v
        THEN /\ last.ok
             /\ hgs[last.h].v_weight = last.args[1]
             /\ Entries(hgs[last.h].cache) = {}
             /\ Entries(hgs[last.h].group_cache) = {}
        ELSE /\ ~last.ok
             /\ hgs[last.h].v_weight = last.before.hg.v_weight
             /\ hgs[last.h].cache = last.before.hg.cache
             /\ hgs[last.h].group_cache = last.before.hg.group_cache

\* C12: in every reachable state the v_weight of every hypergraph is a
\* vector of exactly num_v weights, all 1.0 when the constructor was given
\* none.
C12_VWeightShape ==
    /\ \A h \in Objects : Len(hgs[h].v_weight) = hgs[h].num_v
    /\ (last.op = "Hypergraph" /\ last.ok /\ ~last.args[3].given) =>
           \A v \in 1..hgs[last.h].num_v : hgs[last.h].v_weight[v] = 1

\* C13: a constructor call with a non-positive num_v fails; a constructor
\* call or an add_hyperedges call given a hyperedge with a vertex index
\* outside [0, num_v) fails, and the add leaves the raw groups as they were.
OutOfRange(e_list, num_v) ==
    \E i \in 1..Len(e_list) : \E k \in 1..Len(e_list[i]) : e_list[i][k] >= num_v

C13_InvalidConstructionRejected ==
    /\ (last.op = "Hypergraph" /\ last.args[1] <= 0) => ~last.ok
    /\ (/\ last.op = "Hypergraph"
        /\ last.args[2] # << >>
        /\ OutOfRange(last.args[2][1], last.args[1])) => ~last.ok
    /\ (last.op = "add_hyperedges" /\ OutOfRange(last.args[1], last.before.hg.num_v)) =>
           /\ ~last.ok
           /\ RawOf(last.h) = last.before.rg

\* C14: add_hyperedges with an e_weight list whose length differs from the
\* number of hyperedges fails with the raw groups and both caches as before
\* the call; with e_weight omitted, every hyperedge the call adds as a new
\* entry is stored with w_e 1.0.
AddedOnce(i) ==
    /\ ~HasCode(GroupBefore(TargetGroup), GivenCode(i))
    /\ \A j \in 1..Len(last.args[1]) : GivenCode(j) = GivenCode(i) => j = i

C14_WeightListShapeCheck ==
    /\ (/\ last.op = "add_hyperedges"
        /\ last.args[2].given
        /\ Len(last.args[2].w) # Len(last.args[1])) =>
           /\ ~last.ok
           /\ RawOf(last.h) = last.before.rg
           /\ hgs[last.h].cache = last.before.hg.cache
           /\ hgs[last.h].group_cache = last.before.hg.group_cache
    /\ (last.op = "add_hyperedges" /\ last.ok /\ ~last.args[2].given) =>
           \A i \in 1..Len(last.args[1]) :
               AddedOnce(i) => StoredWeight(GroupAfter(TargetGroup), GivenCode(i)) = <<1, 1>>

\* add_hyperedges was given one weight too many for a non-empty e_list, on a
\* hypergraph that held hyperedges and a filled cache
C14_Witness ==
    /\ last.op = "add_hyperedges" /\ ~last.ok
    /\ last.args[2].given
    /\ Len(last.args[1]) > 0
    /\ Len(last.args[2].w) = Len(last.args[1]) + 1
    /\ num_e(last.before.rg) > 0
    /\ Entries(last.before.hg.cache) # {}
    /\ RawOf(last.h) = last.before.rg

\* C15: add_hyperedges with a merge_op outside {mean, sum, max} fails, for
\* every e_list, whether or not a hyperedge of the list collides with a code
\* the group holds or with an earlier hyperedge of the list.
C15_UnsupportedMergeOp ==
    (last.op = "add_hyperedges" /\ last.args[3] \notin {"mean", "sum", "max"}) => ~last.ok

-----------------------------------------------------------------------------
(* Properties of the message-passing specification.  last.args is          *)
(* <<X, aggr, weight, drop_rate, keep>> for a message-passing call.         *)

MPCall == last.op \in MessagePassingKinds
Zero == <<0, 1>>
Rows(ints) == Tensor("cpu", ints).val
\* the connections the dropout of the latest call left in place
Kept ==
    IF QLess(Zero, DropRateOf(last.args[4]))
    THEN last.args[5] \cap Connections(last.before.rg)
    ELSE Connections(last.before.rg)
ZeroRow(x) == \A k \in 1..Len(x) : x[k] = Zero
Finite(x) == \A i \in 1..Len(x) : \A k \in 1..Len(x[i]) : x[i][k][2] # 0

\* num_v = 4 and group "main" = {(0,1,2): w_e 1.0, (1,2,3): w_e 2.0}
ScenarioRaw ==
    <<[name |-> "main",
       edges |-> <<[code |-> <<<<0, 1, 2>>, <<0, 1, 2>>>>, w_e |-> <<1, 1>>],
                   [code |-> <<<<1, 2, 3>>, <<1, 2, 3>>>>, w_e |-> <<2, 1>>]>>]>>
OnScenario ==
    /\ last.h \in Objects
    /\ last.before.hg # << >>
    /\ last.before.hg.num_v = 4
    /\ last.before.rg = ScenarioRaw
ScenarioCall(kind) ==
    /\ last.op = kind
    /\ OnScenario
    /\ last.args[1] = Tensor("cpu", ScenarioX)
    /\ last.args[2] = "sum"
    /\ ~last.args[3].given
    /\ DropRateOf(last.args[4]) = Zero

\* C16: on the hypergraph with num_v = 4 and group "main" = {(0,1,2): 1.0,
\* (1,2,3): 2.0}, D_e is diag(3,3) and D_v is diag(1,3,3,2); with
\* X = [[1,0],[0,1],[1,1],[2,0]], v2e_aggregation(X, "sum") returns
\* [[2,2],[3,2]] and v2e(X, "sum") returns [[2,2],[6,4]].
C16_ConcreteScenario ==
    /\ (last.op = "read" /\ OnScenario /\ last.args[1] = "D_e") =>
           /\ last.ok
           /\ hgs[last.h].cache["D_e"].val = <<<<3, 1>>, <<3, 1>>>>
    /\ (last.op = "read" /\ OnScenario /\ last.args[1] = "D_v") =>
           /\ last.ok
           /\ hgs[last.h].cache["D_v"].val = <<<<1, 1>>, <<3, 1>>, <<3, 1>>, <<2, 1>>>>
    /\ ScenarioCall("v2e_aggregation") =>
           last.ok /\ out = Rows(<<<<2, 2>>, <<3, 2>>>>)
    /\ ScenarioCall("v2e") =>
           last.ok /\ out = Rows(<<<<2, 2>>, <<6, 4>>>>)

\* v2e(X, "sum") returned on the scenario hypergraph
C16_Witness == ScenarioCall("v2e") /\ last.ok /\ Len(out) = 2

\* C17: when every w_e is 1.0 and every hyperedge has exactly k members, none
\* of them repeated, a read of D_e (of a group or of the whole hypergraph)
\* gives k on every diagonal entry, and a read of D_v gives for every vertex
\* the number of hyperedges (of the group, of the whole hypergraph) that
\* contain it.
ReadGroups ==
    IF last.op = "read" THEN last.before.rg
    ELSE SelectSeq(last.before.rg, LAMBDA grp : grp.name = last.args[2])
ReadEdges == AllEdges(ReadGroups)
Members(e) == {e.code[1][k] : k \in 1..Len(e.code[1])}
Uniform(k) ==
    \A i \in 1..Len(ReadEdges) :
        /\ ReadEdges[i].w_e = <<1, 1>>
        /\ Len(ReadEdges[i].code[1]) = k
        /\ Cardinality(Members(ReadEdges[i])) = k
ReadValue ==
    IF last.op = "read" THEN hgs[last.h].cache[last.args[1]].val
    ELSE GC(hgs[last.h], last.args[2])[last.args[1]].val
DegreeRead(name) ==
    /\ last.op \in {"read", "read_of_group"}
    /\ last.args[1] = name
    /\ last.ok

C17_DegreeConsistency ==
    \A k \in 1..4 :
        /\ (DegreeRead("D_e") /\ Uniform(k)) =>
               /\ Len(ReadValue) = Len(ReadEdges)
               /\ \A i \in 1..Len(ReadValue) : ReadValue[i] = <<k, 1>>
        /\ (DegreeRead("D_v") /\ Uniform(k)) =>
               /\ Len(ReadValue) = hgs[last.h].num_v
               /\ \A v \in 1..Len(ReadValue) :
                    ReadValue[v] =
                      <<Cardinality({i \in 1..Len(ReadEdges) : (v - 1) \in Members(ReadEdges[i])}),
                        1>>

\* D_e of the whole hypergraph was read with two groups of 3-member
\* hyperedges of weight 1.0
C17_Witness ==
    /\ DegreeRead("D_e") /\ last.op = "read"
    /\ Uniform(3)
    /\ Len(last.before.rg) = 2
    /\ Len(ReadValue) = 2

\* C18: when e2v or e2v_aggregation with aggr "mean" returns on a hypergraph
\* with at least one hyperedge, the returned row of every vertex that has no
\* connection, or none the dropout kept, is all zero, and no returned value
\* is non-finite.
E2VMean ==
    /\ last.op \in {"e2v", "e2v_aggregation"}
    /\ last.args[2] = "mean"
    /\ last.ok
    /\ num_e(last.before.rg) > 0

C18_ZeroDegreeSafety ==
    E2VMean =>
        /\ Len(out) = hgs[last.h].num_v
        /\ Finite(out)
        /\ \A v \in 1..Len(out) : (~\E p \in Kept : p[1] = v) => ZeroRow(out[v])

\* e2v with "mean" returned on a hypergraph one of whose vertices is in no
\* hyperedge, the other vertices having connections
C18_Witness ==
    /\ E2VMean /\ last.op = "e2v"
    /\ \E v \in 1..Len(out) : ~\E p \in Connections(last.before.rg) : p[1] = v
    /\ \E v \in 1..Len(out) : ~ZeroRow(out[v])

\* C19: an aggregation with aggr "sum" and drop_rate 1.0 that returns,
\* returns all zeros; a call with drop_rate 0.0 ends as the same call made
\* without drop_rate, whatever the dropout would have kept.
C19_DropoutBounds ==
    /\ (/\ MPCall
        /\ last.args[2] = "sum"
        /\ last.args[4] = [given |-> TRUE, p |-> <<1, 1>>]
        /\ last.ok) =>
           \A i \in 1..Len(out) : ZeroRow(out[i])
    /\ (/\ MPCall
        /\ last.args[4] = [given |-> TRUE, p |-> Zero]) =>
           /\ last.ok = MessagePassing(last.op, last.before.hg, last.before.rg, last.args[1],
                                       last.args[2], last.args[3], NoDropRate, {}).ok
           /\ out = MessagePassing(last.op, last.before.hg, last.before.rg, last.args[1],
                                   last.args[2], last.args[3], NoDropRate, {}).x
           /\ hgs[last.h] = MessagePassing(last.op, last.before.hg, last.before.rg,
                                           last.args[1], last.args[2], last.args[3],
                                           NoDropRate, {}).hg

\* v2e_aggregation with "sum" and drop_rate 1.0 returned for features whose
\* sum without dropout is not zero
C19_Witness ==
    /\ last.op = "v2e_aggregation"
    /\ last.args[2] = "sum"
    /\ last.args[4] = [given |-> TRUE, p |-> <<1, 1>>]
    /\ last.ok
    /\ Len(out) > 0
    /\ \E i \in 1..Len(out) :
         ~ZeroRow(MessagePassing(last.op, last.before.hg, last.before.rg, last.args[1],
                                 "sum", last.args[3], NoDropRate, {}).x[i])

\* C20: when v2e_aggregation or e2v_aggregation with aggr "mean" and
\* drop_rate > 0 returns, every returned row is the weighted sum of the
\* feature rows over the connections the dropout kept divided by the weight
\* sum of those connections, and the zero row when none was kept.
\* the weight of connection p (1.0 when the call gives no weights)
ConnWeight(p, ps) ==
    IF last.args[3].given THEN QInt(last.args[3].w[Rank(ps, p)]) ELSE <<1, 1>>
\* the kept message path: rows are hyperedges for v2e, vertices for e2v
KeptPath ==
    LET all == IF last.op = "v2e_aggregation" THEN Flip(Connections(last.before.rg))
               ELSE Connections(last.before.rg)
        kept == IF last.op = "v2e_aggregation" THEN Flip(Kept) ELSE Kept
        nr == IF last.op = "v2e_aggregation" THEN num_e(last.before.rg)
              ELSE last.before.hg.num_v
        nc == IF last.op = "v2e_aggregation" THEN last.before.hg.num_v
              ELSE num_e(last.before.rg)
    IN [r |-> nr, c |-> nc,
        a |-> [i \in 1..nr |-> [j \in 1..nc |->
                 IF <<i, j>> \in kept THEN ConnWeight(<<i, j>>, all) ELSE Zero]]]
RunningMean(p, x) ==
    [i \in 1..p.r |-> [k \in 1..Cols(x) |->
        IF RowSumsOf(p)[i] = Zero THEN Zero
        ELSE QMul(SparseMm(p, x)[i][k], QNeg1(RowSumsOf(p)[i]))]]

C20_MeanUnderDropout ==
    (/\ last.op \in {"v2e_aggregation", "e2v_aggregation"}
     /\ last.args[2] = "mean"
     /\ QLess(Zero, DropRateOf(last.args[4]))
     /\ last.ok) =>
        out = RunningMean(KeptPath, last.args[1].val)

\* C21: when v2e_aggregation or e2v_aggregation with aggr "mean" and
\* drop_rate 0 returns, every returned row is the weighted arithmetic mean of
\* the feature rows over the connections of its hyperedge (vertex): the sum
\* of w_i * X_i divided by the sum of w_i, the w_i being 1 when the call
\* gives no connection weights and the given entries otherwise.
MeanCall ==
    /\ last.op \in {"v2e_aggregation", "e2v_aggregation"}
    /\ last.args[2] = "mean"
    /\ DropRateOf(last.args[4]) = Zero
    /\ last.ok

C21_MeanAggregation == MeanCall => out = RunningMean(KeptPath, last.args[1].val)

\* C22: v2v(X, aggr, drop_rate, ...) ends as e2v(v2e(X, a1, v2e_weight,
\* e_weight, d1), a2, e2v_weight, d2) does, where a1 (a2) is v2e_aggr
\* (e2v_aggr) when given and aggr otherwise, and d1 (d2) is v2e_drop_rate
\* (e2v_drop_rate) when given, an explicit 0.0 included, and drop_rate
\* otherwise; and e2v returns what e2v_aggregation returns.
Staged == last.op = "v2v(staged)"
StageAggr(o) == IF o.given THEN o.a ELSE last.args[2]
StageRate(o) == IF o.given THEN o.p ELSE DropRateOf(last.args[3])
Stage1 ==
    v2e(last.before.hg, last.before.rg, last.args[1], StageAggr(last.args[4].v2e_aggr),
        NoWeight, last.args[4].e_weight, StageRate(last.args[4].v2e_drop_rate),
        Flip(last.args[5]))
Stage2 ==
    e2v(Stage1.hg, last.before.rg, [dev |-> last.args[1].dev, val |-> Stage1.x],
        StageAggr(last.args[4].e2v_aggr), NoWeight, StageRate(last.args[4].e2v_drop_rate),
        last.args[6])
PlainStage1 ==
    v2e(last.before.hg, last.before.rg, last.args[1], last.args[2], NoWeight, NoEWeight,
        DropRateOf(last.args[4]), Flip(last.args[5]))
PlainStage2 ==
    e2v(PlainStage1.hg, last.before.rg, [dev |-> last.args[1].dev, val |-> PlainStage1.x],
        last.args[2], NoWeight, DropRateOf(last.args[4]), last.args[5])
EndsAs(r) == last.ok = r.ok /\ hgs[last.h] = r.hg /\ (r.ok => out = r.x)

LocatedCall ==
    \/ last.op = "to"
    \/ last.op \in MessagePassingKinds /\ last.ok
CallDevice == IF last.op = "to" THEN last.args[1] ELSE last.args[1].dev
AllAt(hg, d) ==
    /\ hg.device = d
    /\ \A name \in DOMAIN hg.cache : hg.cache[name].dev = d
    /\ \A g \in DOMAIN hg.group_cache :
         \A name \in DOMAIN hg.group_cache[g] : hg.group_cache[g][name].dev = d
EntriesKept(old, new) ==
    /\ \A name \in DOMAIN old.cache :
         name \in DOMAIN new.cache /\ new.cache[name] = old.cache[name]
    /\ \A g \in DOMAIN old.group_cache :
         /\ g \in DOMAIN new.group_cache
         /\ \A name \in DOMAIN old.group_cache[g] :
              /\ name \in DOMAIN new.group_cache[g]
              /\ new.group_cache[g][name] = old.group_cache[g][name]

C23_LocationConsistency ==
    /\ LocatedCall => AllAt(hgs[last.h], CallDevice)
    /\ (/\ last.op \in MessagePassingKinds
        /\ last.ok
        /\ last.before.hg.device = last.args[1].dev) =>
           EntriesKept(last.before.hg, hgs[last.h])

\* C24: in every reachable state, for every hypergraph, column j of the
\* global H, row j of H_T, diagonal entry j of W_e and diagonal entry j of
\* D_e (as far as they are cached, which is what a read returns) describe the
\* j-th hyperedge when the groups are enumerated in order of first insertion
\* and each group's hyperedges in insertion order, and the global D_v is the
\* sum over the groups of the per-group vertex degrees.
Listings(e, v) == Occurrences(e.code[1], v - 1)
GroupDegree(edges, v) ==
    QSum([j \in 1..Len(edges) |-> QScale(Listings(edges[j], v), edges[j].w_e)])
Aligned(hg, rg) ==
    /\ InC(hg, "H") =>
         /\ hg.cache["H"].val.c = num_e(rg)
         /\ \A j \in 1..num_e(rg) : \A v \in 1..hg.num_v :
              (hg.cache["H"].val.a[v][j] # 0) <=> (Listings(AllEdges(rg)[j], v) > 0)
    /\ InC(hg, "H_T") =>
         /\ hg.cache["H_T"].val.r = num_e(rg)
         /\ \A j \in 1..num_e(rg) : \A v \in 1..hg.num_v :
              (hg.cache["H_T"].val.a[j][v] # 0) <=> (Listings(AllEdges(rg)[j], v) > 0)
    /\ InC(hg, "W_e") =>
         hg.cache["W_e"].val = [j \in 1..num_e(rg) |-> AllEdges(rg)[j].w_e]
    /\ InC(hg, "D_e") =>
         hg.cache["D_e"].val =
             [j \in 1..num_e(rg) |-> QInt(Len(AllEdges(rg)[j].code[1]))]
    /\ InC(hg, "D_v") =>
         hg.cache["D_v"].val =
             [v \in 1..hg.num_v |-> QSum([i \in 1..Len(rg) |-> GroupDegree(rg[i].edges, v)])]

C24_GlobalOrdering == \A h \in Objects : Aligned(hgs[h], RawOf(h))

\* the same, for hypergraphs whose caches hold what a recomputation gives
C24_OrderingOfCoherent ==
    \A h \in Objects : Coherent(hgs[h], RawOf(h)) => Aligned(hgs[h], RawOf(h))

\* merging a duplicate keeps the hyperedge's position: an add_hyperedges
\* call, returning or not, leaves every hyperedge the group held at its index
C24_MergeKeepsPosition ==
    last.op = "add_hyperedges" =>
        /\ Len(GroupAfter(TargetGroup)) >= Len(GroupBefore(TargetGroup))
        /\ \A i \in 1..Len(GroupBefore(TargetGroup)) :
             GroupAfter(TargetGroup)[i].code = GroupBefore(TargetGroup)[i].code

-----------------------------------------------------------------------------
(* Properties of the threads specification.  last.before holds the          *)
(* hypergraph and the raw groups the threads started on.                    *)

ThreadIds == DOMAIN threads
\* what the call of thread t returns when it runs alone on the hypergraph
\* the threads started on
Alone(t) ==
    IF threads[t].call \in MessagePassingKinds
    THEN MessagePassing(threads[t].call, last.before.hg, last.before.rg, threads[t].X,
                        "mean", NoWeight, NoDropRate, {}).x
    ELSE ReadGlobal(threads[t].call, last.before.hg, last.before.rg).hg.cache[threads[t].call]
\* every thread runs an aggregation, and every matrix these read was cached
\* when they started
PreWarmed ==
    /\ ThreadIds # {}
    /\ \A t \in ThreadIds :
         /\ threads[t].call \in MessagePassingKinds
         /\ \A i \in 1..Len(Reads(threads[t].call, "", last.before.rg)) :
              Cached(last.before.hg, Reads(threads[t].call, "", last.before.rg)[i])

\* C25: when every matrix the aggregations need is cached beforehand, the
\* inputs are located with the hypergraph and no mutator runs, concurrent
\* aggregation calls (drop_rate 0), however they interleave, write neither
\* the raw groups nor any cache entry, and each returns what it returns when
\* run alone.
C25_PreWarmedReads ==
    PreWarmed =>
        /\ hgs[1] = last.before.hg
        /\ RawOf(1) = last.before.rg
        /\ \A t \in ThreadIds :
             /\ ~threads[t].wrote
             /\ threads[t].done => threads[t].result = Alone(t)

\* two threads have returned from v2e_aggregation and e2v on caches filled
\* beforehand
C25_Witness ==
    /\ PreWarmed
    /\ threads[1].call = "v2e_aggregation" /\ threads[2].call = "e2v"
    /\ threads[1].done /\ threads[2].done
    /\ Len(threads[1].result) = 2 /\ Len(threads[2].result) = 4
    /\ Len(last.before.rg) = 2

\* C30: with no mutator running, when threads concurrently trigger the lazy
\* computation of missing cache entries (the same one, or entries computed
\* from the same ones), then in every interleaving of their lookups, nested
\* calls and stores every cache entry present equals the value computed from
\* the raw groups, and every thread that has returned obtained that value.
FromRaw(t) ==
    IF threads[t].call \in MessagePassingKinds
    THEN MessagePassing(threads[t].call, Uncached(last.before.hg), last.before.rg,
                        threads[t].X, "mean", NoWeight, NoDropRate, {}).x
    ELSE ReadGlobal(threads[t].call, Uncached(last.before.hg),
                    last.before.rg).hg.cache[threads[t].call]

C30_RacingPopulation ==
    ThreadIds # {} =>
        /\ RawOf(1) = last.before.rg
        /\ Coherent(hgs[1], RawOf(1))
        /\ \A t \in ThreadIds : threads[t].done => threads[t].result = FromRaw(t)

\* two threads that started D_e on a hypergraph with two groups and empty
\* caches have both stored entries and have both returned the cached D_e
C30_Witness ==
    /\ ThreadIds = {1, 2}
    /\ last.before.hg = Uncached(last.before.hg)
    /\ Len(last.before.rg) = 2
    /\ \A t \in ThreadIds :
         /\ threads[t].call = "D_e"
         /\ threads[t].done
         /\ threads[t].wrote
         /\ threads[t].result = hgs[1].cache["D_e"]

-----------------------------------------------------------------------------
(* Properties of BaseHypergraph.add_hyperedges.  last.args is               *)
(* <<e_list_v2e, e_list_e2v, w_list_v2e, w_list_e2v, e_weight, merge_op,    *)
(* group_name>>.                                                            *)

DirectionalAdd == last.op = "BaseHypergraph.add_hyperedges" /\ last.ok
GivenV2E == _format_e_list_and_w_on_them(last.args[1], last.args[3])
GivenE2V == _format_e_list_and_w_on_them(last.args[2], last.args[4])
DirectionalCode == _hyperedge_code(GivenV2E.es[1], GivenE2V.es[1])
\* the call lists one hyperedge, which the group already held with a list of
\* weights on its connections
AddedTwice ==
    /\ DirectionalAdd
    /\ Len(last.args[1]) = 1
    /\ HasCode(GroupBefore(last.args[7]), DirectionalCode)
    /\ IsList(GroupBefore(last.args[7])[CodeIdx(GroupBefore(last.args[7]),
                                                DirectionalCode)].w_v2e)
MergedOf(edges) == edges[CodeIdx(edges, DirectionalCode)]
MergedVector(key, given, n) ==
    /\ key \in DOMAIN MergedOf(GroupAfter(last.args[7]))
    /\ IsList(MergedOf(GroupAfter(last.args[7]))[key])
    /\ Len(MergedOf(GroupAfter(last.args[7]))[key].list) = n
    /\ \A k \in 1..n :
         MergedOf(GroupAfter(last.args[7]))[key].list[k] =
             _merge_func(last.args[6], MergedOf(GroupBefore(last.args[7]))[key].list[k],
                         given[k])

\* C26: when BaseHypergraph.add_hyperedges adds a directional hyperedge that
\* its group already holds, the merged entry's w_v2e and w_e2v are vectors as
\* long as the hyperedge's member lists, each position the merge_op of the
\* two corresponding connection weights.
C26_ConnectionWeightMerge ==
    AddedTwice =>
        /\ MergedVector("w_v2e", GivenV2E.ws[1], Len(DirectionalCode[1]))
        /\ MergedVector("w_e2v", GivenE2V.ws[1], Len(DirectionalCode[2]))

\* the 0/1 membership matrix of a sequence of hyperedges over num_v vertices
Incidence(edges, num_v) ==
    [r |-> num_v, c |-> Len(edges),
     a |-> [v \in 1..num_v |->
              [e \in 1..Len(edges) |-> IF Listings(edges[e], v) > 0 THEN 1 ELSE 0]]]
\* a read of H or H_T returned, from caches that were coherent before it
IncidenceRead ==
    /\ last.op \in {"read", "read_of_group"}
    /\ last.ok
    /\ last.args[1] \in {"H", "H_T"}
    /\ Coherent(last.before.hg, last.before.rg)
IncidenceReturned ==
    IF last.op = "read" THEN hgs[last.h].cache[last.args[1]].val
    ELSE GC(hgs[last.h], last.args[2])[last.args[1]].val
IncidenceExpected ==
    LET edges == IF last.op = "read" THEN AllEdges(RawOf(last.h))
                 ELSE EdgesOf(RawOf(last.h), last.args[2])
        m == Incidence(edges, hgs[last.h].num_v)
    IN IF last.args[1] = "H" THEN m ELSE Transpose(m)

\* C27: the per-group and the structure-wide H returned by a read has entry
\* exactly 1 at (v, e) when vertex v is listed in hyperedge e, also when e
\* lists v more than once, and 0 otherwise; H_T is the transpose of that.
C27_IncidenceValues == IncidenceRead => IncidenceReturned = IncidenceExpected

\* no hyperedge of the object read lists a vertex twice
ListsOnce ==
    \A j \in 1..Len(AllEdges(RawOf(last.h))) : \A v \in 1..hgs[last.h].num_v :
        Listings(AllEdges(RawOf(last.h))[j], v) <= 1
\* the incidence values of hyperedges that list no vertex twice
C27_IncidenceOfSets ==
    (IncidenceRead /\ ListsOnce) => IncidenceReturned = IncidenceExpected

\* the calls that only read: queries, matrix reads and aggregations
ReadOps ==
    {"query", "read", "read_of_group", "v2v(staged)"} \cup MessagePassingKinds
\* every cache entry of before is an entry of after with the same value
EntriesStay(before, after) ==
    /\ \A name \in Entries(before.cache) :
         /\ name \in Entries(after.cache)
         /\ after.cache[name].val = before.cache[name].val
    /\ \A g \in Entries(before.group_cache) : \A name \in Entries(before.group_cache[g]) :
         /\ InG(after, g, name)
         /\ GC(after, g)[name].val = before.group_cache[g][name].val
\* every cached matrix is the one computed from the raw groups, none is a
\* matrix after dropout
Undropped(hg, rg) ==
    /\ \A name \in Entries(hg.cache) \cap MatrixNames :
         hg.cache[name].val = ReadGlobal(name, Uncached(hg), rg).hg.cache[name].val
    /\ \A g \in Entries(hg.group_cache) : \A name \in Entries(hg.group_cache[g]) :
         hg.group_cache[g][name].val
             = GC(ReadOfGroup(name, Uncached(hg), rg, g).hg, g)[name].val

\* C28: a query (num_e, num_e_of_group, group_names, v, v_weight), a read of a
\* derived matrix and an aggregation call with any drop_rate leave num_v,
\* v_weight and the raw groups as they were and every cache entry that
\* existed with the value it had; the entries they add are the matrices
\* computed from the raw groups, never a matrix after dropout.
C28_ReadsPreserveFrame ==
    last.op \in ReadOps =>
        /\ hgs[last.h].num_v = last.before.hg.num_v
        /\ hgs[last.h].v_weight = last.before.hg.v_weight
        /\ RawOf(last.h) = last.before.rg
        /\ EntriesStay(last.before.hg, hgs[last.h])
        /\ Undropped(last.before.hg, last.before.rg)
             => Undropped(hgs[last.h], RawOf(last.h))

\* an aggregation that dropped connections returned, on an object whose
\* cache held the incidence matrices before the call
C28_Witness ==
    /\ last.op \in MessagePassingKinds
    /\ last.ok
    /\ last.args[4] = HalfDropRate
    /\ last.args[5] # Connections(RawOf(last.h))
    /\ InC(last.before.hg, "H_T")
    /\ InC(last.before.hg, "D_e")
    /\ C28_ReadsPreserveFrame

\* the object a clone call returned and the object it was called on
Cloned == hgs[Len(hgs)]
Original == last.before.hg
\* a read of the matrix name has the same outcome on the clone as on the
\* original at the time of cloning
SameRead(name) ==
    /\ ReadGlobal(name, Cloned, RawOf(Len(hgs))).ok
         = ReadGlobal(name, Original, last.before.rg).ok
    /\ ReadGlobal(name, Original, last.before.rg).ok =>
         ReadGlobal(name, Cloned, RawOf(Len(hgs))).hg.cache[name].val
             = ReadGlobal(name, Original, last.before.rg).hg.cache[name].val
EqualCopy ==
    /\ Cloned.num_v = Original.num_v
    /\ Cloned.v_weight = Original.v_weight
    /\ RawOf(Len(hgs)) = last.before.rg
    /\ \A name \in MatrixNames : SameRead(name)
\* the clone has raw groups of its own, and the original is as it was
IndependentCopy ==
    /\ Cloned.raw # hgs[last.h].raw
    /\ hgs[last.h] = Original
    /\ RawOf(last.h) = last.before.rg

\* C29: the object clone() returns has the num_v, the v_weight and the raw
\* groups of the original, every derived matrix read from it (W_v, D_v, ...)
\* equals the one read from the original at the time of cloning, and it
\* shares no raw groups with the original, so that a later mutation of one
\* leaves the other unchanged.
C29_CloneIsEqualCopy == (last.op = "clone" /\ last.ok) => (EqualCopy /\ IndependentCopy)

\* the same for an original whose vertex weights are the default ones
C29_CloneOfDefaultWeights ==
    (last.op = "clone" /\ last.ok
        /\ Original.v_weight = [i \in 1..Original.num_v |-> 1])
    => (EqualCopy /\ IndependentCopy)

====
